---- MODULE Spec2Model ----
(***************************************************************************)
(* Lead-enrichment handlers of saas-admin-template (src/pages/api/*.ts).   *)
(*                                                                         *)
(* Each POST handler is a small state machine: one action per await        *)
(* (provider call, LeadStore call, LLM call), with the synchronous code    *)
(* around the await folded into the action.  The handlers share one lead   *)
(* row of the "leads" table (variable lead).                               *)
(*                                                                         *)
(* Reading notes on the sources:                                           *)
(*  - reels_run.ts lines 163 and 187 do not parse ("timestamp,             *)
(*    reel.timestamp," and "${er_avg%}"); they are read as                 *)
(*    "timestamp: reel.timestamp" and "${er_avg}%".                        *)
(*  - website_run.ts line 50 calls externalUrl.endswith('/').  A string    *)
(*    has no method "endswith" (only endsWith), so the call raises a       *)
(*    TypeError outside every try block: the lead-writing website handler  *)
(*    ends there on every validated request.                               *)
(*  - qualify_run.ts line 21 reads invalidTokenResponse, a name the module *)
(*    never declares: the handler ends in a ReferenceError on every        *)
(*    request.                                                             *)
(***************************************************************************)
EXTENDS Integers, Sequences, FiniteSets, TLC

VARIABLES lead, lastw, inv, procs, started, budget

vars == <<lead, lastw, inv, procs, started, budget>>

----------------------------------------------------------------------------
(* Bounds of the model.                                                     *)

\* handler invocations started in one behaviour
MaxInvocations == 3

\* status queries of one job in the runs of two concurrent workers
MaxTwinPolls == 2

\* invocation slots (only those in procs run)
Procs == {1, 2}

----------------------------------------------------------------------------
(* JSON values.                                                             *)

Null == [k |-> "null"]
Arr(s) == [k |-> "arr", v |-> s]
Num(n) == [k |-> "num", v |-> n]
Obj(o) == [k |-> "obj", v |-> o]

\* an absent (undefined) numeric field of a raw record
Absent == -1

\* a normalisation that passes a missing number on
Or0_Keep(x) == x

\* x || 0
Or0(x) == IF x = Absent THEN 0 ELSE x

\* a rate that is a plain ratio, not a percentage
RoundPct_Ratio(n, d) == (2 * n * 100 + d) \div (2 * d)

\* Number(q.toFixed(2)) for q = n / d * 100, kept in hundredths
RoundPct(n, d) == (2 * n * 10000 + d) \div (2 * d)

----------------------------------------------------------------------------
(* Provider payloads the model draws from.                                  *)

ReelA == [id |-> 1, likesCount |-> 10, commentsCount |-> 5, videoPlayCount |-> 100, timestamp |-> 7]
ReelB == [id |-> 2, likesCount |-> 20, commentsCount |-> 0, videoPlayCount |-> 0, timestamp |-> 8]
ReelC == [id |-> 3, likesCount |-> Absent, commentsCount |-> 4, videoPlayCount |-> Absent, timestamp |-> Absent]

ReelD == [id |-> 4, likesCount |-> 7, commentsCount |-> 3, videoPlayCount |-> 30, timestamp |-> 9]

\* bodies of the dataset-items response: JSON null, [], or a list of records
ReelResults ==
  {Null, Arr(<<>>), Arr(<<ReelB>>), Arr(<<ReelC>>), Arr(<<ReelA, ReelB>>),
   Arr(<<ReelD, ReelA>>), Arr(<<ReelA, ReelB, ReelC>>)}

\* statuses the actor-run endpoint reports
ProviderStatuses == {"READY", "RUNNING", "SUCCEEDED", "FAILED", "TIMED-OUT", "ABORTED"}

----------------------------------------------------------------------------
(* Requests.                                                                *)

Request(token, json, username, externalUrl, leadId, leadRef) ==
  [token |-> token, json |-> json, username |-> username,
   externalUrl |-> externalUrl, leadId |-> leadId, leadRef |-> leadRef]

\* token: the API token is accepted; json: the body parses;
\* username / externalUrl: "string" or "bad" (missing or not a string);
\* leadId: "string", "number" or "bad"; leadRef: the row the id names
\* ("this": the lead row, "other": no row).
NoRequest == Request(TRUE, TRUE, "bad", "bad", "bad", "other")

ReelsRequests ==
  { Request(FALSE, TRUE, "string", "bad", "string", "this"),
    Request(TRUE, FALSE, "bad", "bad", "bad", "other"),
    Request(TRUE, TRUE, "bad", "bad", "string", "this"),
    Request(TRUE, TRUE, "string", "bad", "number", "this"),
    Request(TRUE, TRUE, "string", "bad", "string", "this"),
    Request(TRUE, TRUE, "string", "bad", "string", "other") }

WebsiteRequests ==
  { Request(FALSE, TRUE, "bad", "string", "string", "this"),
    Request(TRUE, FALSE, "bad", "bad", "bad", "other"),
    Request(TRUE, TRUE, "bad", "bad", "string", "this"),
    Request(TRUE, TRUE, "bad", "string", "bad", "other"),
    Request(TRUE, TRUE, "bad", "string", "number", "this"),
    Request(TRUE, TRUE, "bad", "string", "string", "this") }

----------------------------------------------------------------------------
(* Invocation records.                                                      *)

NoResp == [status |-> 0, success |-> "absent", body |-> "none", data |-> Null]

Resp(status, success, body, data) ==
  [status |-> status, success |-> success, body |-> body, data |-> data]

Idle ==
  [handler |-> "none", pc |-> "idle", req |-> NoRequest,
   run |-> 0, status |-> "RUNNING", maxAttempts |-> 0,
   queries |-> 0, sleeps |-> 0, failures |-> 0, allRunning |-> TRUE,
   submits |-> 0, fetches |-> 0, llm |-> 0, writes |-> 0,
   results |-> Null, pend |-> Null, reason |-> "none",
   fetched |-> "no", wrote |-> Null, applied |-> FALSE,
   profile |-> Null, recentReels |-> <<>>, snap |-> Null, answer |-> Null,
   erPrompt |-> Null, chained |-> 0,
   outcome |-> "none", resp |-> NoResp]

\* the invocation p with the fields of r replaced
Upd(p, r) == inv' = [inv EXCEPT ![p] = r @@ @]

Running(p, h, pc) == p \in procs /\ inv[p].handler = h /\ inv[p].pc = pc

\* the record that changes nothing of invocation p
Keep(p) == [handler |-> inv[p].handler]

\* the locals of a poll loop and the pending patch, as they are once the
\* step after the loop has been taken
Gone ==
  [status |-> "RUNNING", maxAttempts |-> 0, queries |-> 0, sleeps |-> 0,
   allRunning |-> TRUE, pend |-> Null]

\* a handler returns a Response
Return(p, r, outcome, resp) ==
  Upd(p, r @@ [pc |-> "done", outcome |-> outcome, resp |-> resp] @@ Gone)

\* an exception leaves the handler
Throw(p, r, why) ==
  Upd(p, r @@ [pc |-> "threw", outcome |-> "Thrown", reason |-> why] @@ Gone)

----------------------------------------------------------------------------
(* LeadStore: supabase.from("leads").update(patch).eq('id', leadId).        *)

Stages == {"reels", "website", "analysis"}

OwnedFields(stage) ==
  CASE stage = "reels" -> {"reels", "er_avg"}
    [] stage = "website" -> {"website_data"}
    [] stage = "analysis" -> {"openai", "summary", "prices", "pricesLow", "niche", "otherContact"}

\* the update reaches the row: the store answers without error and the id
\* names the row
Applies(req, dbOk) == dbOk /\ req.leadRef = "this"

Patched(l, patch) ==
  [f \in DOMAIN l |-> IF f \in DOMAIN patch THEN patch[f] ELSE l[f]]

\* one update call; kind is the result ("Ok" / "Degraded") that issued it
Update(req, patch, dbOk, kind) ==
  /\ lead' = IF Applies(req, dbOk) THEN Patched(lead, patch) ELSE lead
  /\ lastw' = [s \in Stages |->
                 IF Applies(req, dbOk) /\ OwnedFields(s) \cap DOMAIN patch # {}
                 THEN kind ELSE lastw[s]]

NoStore == UNCHANGED <<lead, lastw>>

----------------------------------------------------------------------------
(* Start and end of an invocation.                                          *)

Begin(p, h, req) ==
  /\ p \in procs
  /\ inv[p].pc = "idle"
  /\ started < budget
  /\ started' = started + 1
  /\ inv' = [inv EXCEPT ![p] = [handler |-> h, pc |-> "entry", req |-> req] @@ Idle]

\* the response (or the exception) has left the worker
Finish(p) ==
  /\ p \in procs
  /\ inv[p].pc \in {"done", "threw"}
  /\ inv' = [inv EXCEPT ![p] = Idle]
  /\ UNCHANGED <<lead, lastw, procs, started, budget>>

----------------------------------------------------------------------------
(* reels_run.ts POST                                                        *)

\* a Degraded write that leaves the completion flag set
ReelsNeutral_KeepsFlag == [has_reels |-> "true", reels |-> Arr(<<>>), er_avg |-> Null]

\* lines 79, 87, 119, 139, 145: the patch of every Degraded write
ReelsNeutral == [has_reels |-> "false", reels |-> Arr(<<>>), er_avg |-> Null]

ReelsBegin(p) ==
  /\ \E req \in ReelsRequests : Begin(p, "reels", req)
  /\ UNCHANGED <<lead, lastw, procs, budget>>

\* lines 28-52: token check, body parse, field validation
ReelsEntry(p) ==
  /\ Running(p, "reels", "entry")
  /\ LET req == inv[p].req IN
       IF ~req.token
         THEN Return(p, Keep(p), "Rejected", Resp(401, "absent", "invalid token", Null))
       ELSE IF ~req.json
         THEN Return(p, Keep(p), "Rejected", Resp(400, "absent", "Invalid JSON body", Null))
       ELSE IF req.username # "string" \/ req.leadId # "string"
         THEN Return(p, Keep(p), "Rejected", Resp(400, "absent", "Missing/invalid username or leadId", Null))
       ELSE Upd(p, [pc |-> "submit"])
  /\ NoStore
  /\ UNCHANGED <<procs, started, budget>>

\* lines 64-93: submit the actor run.  ans: "netfail" (fetch rejects),
\* "rejected" (response not ok), "badbody" (ok response whose body is not
\* the JSON {data: {id, ...}}: line 92 or 93 raises outside any try),
\* "ok".
SubmitAnswers == {"netfail", "rejected", "badbody", "ok"}

\* line 97 (also website_run.ts 105, apify_run.ts 76)
MaxAttempts == 40

\* a catch that lets the loop go on after a failed query
ReelsPollCatch_Retry == "RUNNING"

\* lines 110-113: what the catch around the status query leaves in status
ReelsPollCatch == "FAILED"

\* a loop condition that allows one iteration too many
PollContinues_OneMore(status, maxAttempts) == status = "RUNNING" /\ maxAttempts >= 0

\* line 98: the loop condition, on the values before the post-decrement
PollContinues(status, maxAttempts) == status = "RUNNING" /\ maxAttempts > 0

\* line 98: maxAttempts-- is evaluated only when status is still RUNNING
AfterCondition(status, maxAttempts) ==
  IF status = "RUNNING" THEN maxAttempts - 1 ELSE maxAttempts

\* a handler that fetches the results whatever the final status
ReelsAfterPoll_Always(status) == "fetch"

\* line 116: only SUCCEEDED goes on to the results fetch
ReelsAfterPoll(status) == IF status = "SUCCEEDED" THEN "fetch" ELSE "degrade"

ReelsSubmit(p) ==
  /\ Running(p, "reels", "submit")
  /\ \E ans \in SubmitAnswers :
       LET n == [submits |-> inv[p].submits + 1] IN
       CASE ans = "netfail" -> Upd(p, n @@ [pc |-> "degrade", reason |-> "Fetch failed"])
         [] ans = "rejected" -> Upd(p, n @@ [pc |-> "degrade", reason |-> "Apify run failed"])
         [] ans = "badbody" -> Throw(p, n, "submit body")
         [] ans = "ok" ->
              \* line 96-98: first evaluation of the loop condition
              Upd(p, n @@ [pc |-> "poll", status |-> "RUNNING",
                           maxAttempts |-> AfterCondition("RUNNING", MaxAttempts)])
  /\ NoStore
  /\ UNCHANGED <<procs, started, budget>>

\* lines 98-114: one iteration (sleep, status query) and the next evaluation
\* of the loop condition.  ans = "error": the query rejects, answers not ok
\* or with an unreadable body.
ReelsPoll(p) ==
  /\ Running(p, "reels", "poll")
  /\ \E ans \in ProviderStatuses \cup {"error"} :
       LET status == IF ans = "error" THEN ReelsPollCatch ELSE ans
           left == inv[p].maxAttempts
           again == PollContinues(status, left)
       IN Upd(p, [sleeps |-> inv[p].sleeps + 1,
                  queries |-> inv[p].queries + 1,
                  failures |-> IF ans = "error" THEN inv[p].failures + 1 ELSE 0,
                  allRunning |-> inv[p].allRunning /\ ans = "RUNNING",
                  status |-> status,
                  maxAttempts |-> AfterCondition(status, left),
                  pc |-> IF again THEN "poll" ELSE ReelsAfterPoll(status),
                  reason |-> IF again \/ status = "SUCCEEDED" THEN "none" ELSE "Run status"])
  /\ NoStore
  /\ UNCHANGED <<procs, started, budget>>

\* an extraction that drops the engagement of an item nobody viewed
ExtractReel_ZeroViewSilenced(reel) ==
  LET views == Or0(reel.videoPlayCount)
      likes == IF views > 0 THEN Or0(reel.likesCount) ELSE 0
      comments == IF views > 0 THEN Or0(reel.commentsCount) ELSE 0
  IN [id |-> reel.id,
      ctr |-> IF views > 0 THEN RoundPct(likes + comments, views) ELSE 0,
      likesCount |-> likes, commentsCount |-> comments, videoPlayCount |-> views,
      timestamp |-> reel.timestamp]

\* lines 150-165
ExtractReel(reel) ==
  LET views == Or0(reel.videoPlayCount)
      likes == Or0(reel.likesCount)
      comments == Or0(reel.commentsCount)
  IN [id |-> reel.id,
      ctr |-> IF views > 0 THEN RoundPct(likes + comments, views) ELSE 0,
      likesCount |-> likes, commentsCount |-> comments, videoPlayCount |-> views,
      timestamp |-> reel.timestamp]

\* line 150: results.slice(0, 2).map(...)
ReelsCap == 2

\* an extraction that takes the last items of the result
ExtractReels_Last(results) ==
  LET n == IF Len(results) < ReelsCap THEN Len(results) ELSE ReelsCap
  IN [i \in 1..n |-> ExtractReel(results[Len(results) - n + i])]

\* an extraction that keeps every item of the result
ExtractReels_NoCap(results) ==
  [i \in 1..Len(results) |-> ExtractReel(results[i])]

ExtractReels(results) ==
  LET n == IF Len(results) < ReelsCap THEN Len(results) ELSE ReelsCap
  IN [i \in 1..n |-> ExtractReel(results[i])]

\* reduce((sum, x) => sum + x, 0)
RECURSIVE Sum(_)
Sum(s) == IF s = <<>> THEN 0 ELSE Head(s) + Sum(Tail(s))

\* lines 167-169; hundredths of a percent, or null
ErAvg(reels) ==
  LET totalEngagement == Sum([i \in 1..Len(reels) |-> reels[i].likesCount + reels[i].commentsCount])
      totalViews == Sum([i \in 1..Len(reels) |-> reels[i].videoPlayCount])
  IN IF totalViews > 0 THEN Num(RoundPct(totalEngagement, totalViews)) ELSE Null

\* a check that forgets the empty list
NoResults_NullOnly(body) == body = Null

\* line 143 (also apify_run.ts 156)
NoResults(body) == body = Null \/ body = Arr(<<>>)

\* lines 124-169: fetch the dataset items, then extract.  ok = FALSE: the
\* fetch rejects, answers not ok or with an unreadable body.
ReelsFetch(p) ==
  /\ Running(p, "reels", "fetch")
  /\ \E ok \in BOOLEAN, body \in ReelResults :
       /\ (~ok => body = Null)
       /\ LET n == [fetches |-> inv[p].fetches + 1, results |-> body,
                     fetched |-> IF ok THEN "ok" ELSE "error"] IN
          IF ~ok THEN Upd(p, n @@ [pc |-> "degrade", reason |-> "Results error"])
          ELSE IF NoResults(body) THEN Upd(p, n @@ [pc |-> "degrade", reason |-> "No reels found"])
          ELSE LET reels == ExtractReels(body.v) IN
               Upd(p, n @@ [pc |-> "persist",
                            pend |-> Obj([reels |-> Arr(reels), er_avg |-> ErAvg(reels), has_reels |-> "true"])])
  /\ NoStore
  /\ UNCHANGED <<procs, started, budget>>

\* a handler that answers a run it could not complete as a server error
ReelsSkipped_Hard(reason) == Resp(500, "absent", reason, Null)

\* a handler that reports a run it could not complete as a success
ReelsSkipped_Success(reason) == Resp(200, "true", reason, Null)

\* lines 81, 89, 120, 140, 146: { success: false, error }, status 200
ReelsSkipped(reason) == Resp(200, "false", reason, Null)

\* lines 79-81, 87-89, 118-120, 138-140, 144-146: the Degraded write and
\* its response; the result of the update is not looked at
ReelsDegrade(p) ==
  /\ Running(p, "reels", "degrade")
  /\ \E dbOk \in BOOLEAN :
       /\ Update(inv[p].req, ReelsNeutral, dbOk, "Degraded")
       /\ Return(p, [writes |-> inv[p].writes + 1, applied |-> Applies(inv[p].req, dbOk),
                     wrote |-> Obj(ReelsNeutral)], "Degraded",
                 ReelsSkipped(inv[p].reason))
  /\ UNCHANGED <<procs, started, budget>>

\* lines 171-193
ReelsPersist(p) ==
  /\ Running(p, "reels", "persist")
  /\ \E dbOk \in BOOLEAN :
       /\ Update(inv[p].req, inv[p].pend.v, dbOk, "Ok")
       /\ IF dbOk
            THEN Return(p, [writes |-> inv[p].writes + 1, applied |-> Applies(inv[p].req, dbOk), wrote |-> inv[p].pend], "Ok",
                        Resp(200, "true", "reels", inv[p].pend))
            ELSE Return(p, [writes |-> inv[p].writes + 1, applied |-> Applies(inv[p].req, dbOk), wrote |-> inv[p].pend], "Error",
                        Resp(500, "absent", "Cache failed", Null))
  /\ UNCHANGED <<procs, started, budget>>

reels_run(p) ==
  \/ ReelsBegin(p) \/ ReelsEntry(p) \/ ReelsSubmit(p) \/ ReelsPoll(p)
  \/ ReelsFetch(p) \/ ReelsDegrade(p) \/ ReelsPersist(p)

----------------------------------------------------------------------------
(* website_run.ts POST, lines 20-226 (the handler that writes the lead)       *)

\* a patch that also resets the fields of the reels stage
WebsiteNeutral_Clobber ==
  [has_website |-> "false", website_data |-> Null, has_reels |-> "false", reels |-> Arr(<<>>)]

WebsiteNeutral == [has_website |-> "false", website_data |-> Null]

WebsiteBegin(p) ==
  /\ \E req \in WebsiteRequests : Begin(p, "website", req)
  /\ UNCHANGED <<lead, lastw, procs, budget>>

\* lines 23-39: token check and body parse
WebsiteEntry(p) ==
  /\ Running(p, "website", "entry")
  /\ LET req == inv[p].req IN
       IF ~req.token
         THEN Return(p, Keep(p), "Rejected", Resp(401, "absent", "invalid token", Null))
       ELSE IF ~req.json
         THEN Return(p, Keep(p), "Rejected", Resp(400, "absent", "Invalid JSON body", Null))
       ELSE IF req.externalUrl # "string" \/ req.leadId # "string"
         THEN Upd(p, [pc |-> "invalid"])
       ELSE \* line 50: externalUrl.endswith is not a function
            Throw(p, Keep(p), "endswith")
  /\ NoStore
  /\ UNCHANGED <<procs, started, budget>>

\* a handler that turns the request down with a 400 and writes nothing
WebsiteInvalid_Reject(p) ==
  /\ Running(p, "website", "invalid")
  /\ Return(p, Keep(p), "Rejected",
            Resp(400, "absent", "Missing/invalid externalUrl or leadId", Null))
  /\ NoStore
  /\ UNCHANGED <<procs, started, budget>>

\* lines 42-46: a request without a usable externalUrl or leadId is answered
\* after a write of the neutral website fields to the row leadId names
WebsiteInvalid(p) ==
  /\ Running(p, "website", "invalid")
  /\ \E dbOk \in BOOLEAN :
       /\ Update(inv[p].req, WebsiteNeutral, dbOk, "Degraded")
       /\ Return(p, [writes |-> inv[p].writes + 1, applied |-> Applies(inv[p].req, dbOk), wrote |-> Obj(WebsiteNeutral)], "Rejected",
                 Resp(200, "false", "Missing/invalid externalUrl or leadId", Null))
  /\ UNCHANGED <<procs, started, budget>>

website_run(p) == WebsiteBegin(p) \/ WebsiteEntry(p) \/ WebsiteInvalid(p)

----------------------------------------------------------------------------
(* apify_run.ts, lines 53-257: runApifyActor and the combined               *)
(* profile + reels POST handler.                                            *)

\* an absent (undefined) string-valued field
Undef == "undef"

ProfileFull ==
  [username |-> "u", followersCount |-> 5, followsCount |-> 3, biography |-> "bio",
   externalUrl |-> "url", profilePicUrl |-> "pic", profilePicUrlHD |-> "hd",
   private |-> "true"]
ProfileBare ==
  [username |-> "u", followersCount |-> 5, followsCount |-> Absent, biography |-> Undef,
   externalUrl |-> Undef, profilePicUrl |-> "pic", profilePicUrlHD |-> Undef,
   private |-> Undef]

\* bodies of the dataset-items response of the posts run
ProfileResults == {Null, Arr(<<>>), Arr(<<ProfileFull>>), Arr(<<ProfileBare>>)}

ApifyRequests ==
  { Request(FALSE, TRUE, "string", "bad", "bad", "other"),
    Request(TRUE, FALSE, "bad", "bad", "bad", "other"),
    Request(TRUE, TRUE, "bad", "bad", "bad", "other"),
    Request(TRUE, TRUE, "string", "bad", "bad", "other") }

\* a normalisation that passes a missing string on
OrEmpty_Keep(x) == x

\* x || ""  and  x || null  on a string-valued field
OrEmpty(x) == IF x = Undef THEN "" ELSE x
OrNull(x) == IF x = Undef THEN "null" ELSE x

\* lines 177-191
ExtractProfile(profile) ==
  [username |-> profile.username,
   followersCount |-> profile.followersCount,
   followsCount |-> IF Or0(profile.followsCount) = 0 THEN Null ELSE Num(profile.followsCount),
   biography |-> OrEmpty(profile.biography),
   externalUrl |-> OrNull(profile.externalUrl),
   profilePicUrl |-> profile.profilePicUrl,
   profilePicUrlHD |-> profile.profilePicUrlHD]

\* lines 214-223
ExtractRecentReel(reel) ==
  [id |-> reel.id,
   likesCount |-> Or0(reel.likesCount),
   commentsCount |-> Or0(reel.commentsCount),
   timestamp |-> reel.timestamp]

ExtractRecentReels(recentReels) ==
  [i \in 1..Len(recentReels) |-> ExtractRecentReel(recentReels[i])]

ApifyBegin(p) ==
  /\ \E req \in ApifyRequests : Begin(p, "apify", req)
  /\ UNCHANGED <<lead, lastw, procs, budget>>

\* lines 121-155: token check, body parse, validation, start of run 1
ApifyEntry(p) ==
  /\ Running(p, "apify", "entry")
  /\ LET req == inv[p].req IN
       IF ~req.token
         THEN Return(p, Keep(p), "Rejected", Resp(401, "absent", "invalid token", Null))
       ELSE IF ~req.json
         THEN Return(p, Keep(p), "Rejected", Resp(400, "absent", "Invalid JSON body", Null))
       ELSE IF req.username # "string"
         THEN Return(p, Keep(p), "Rejected", Resp(400, "absent", "Missing or invalid username", Null))
       ELSE Upd(p, [pc |-> "submit", run |-> 1])
  /\ NoStore
  /\ UNCHANGED <<procs, started, budget>>

\* a handler without the inner try around the reels run
ActorThrows_NoInnerCatch(p, n, why) ==
  Upd(p, n @@ [pc |-> "caught", reason |-> why])

\* An exception out of runApifyActor.  Run 1 (posts): it reaches the outer
\* catch, lines 254-257.  Run 2 (reels): the inner catch, lines 172-174,
\* logs it and recentReels stays [].
ActorThrows(p, n, why) ==
  IF inv[p].run = 1
    THEN Upd(p, n @@ [pc |-> "caught", reason |-> why])
    ELSE Upd(p, n @@ [pc |-> "upload", reason |-> why, recentReels |-> <<>>])

\* lines 254-257: the outer catch answers 500 with the message
ApifyCaught(p) ==
  /\ Running(p, "apify", "caught")
  /\ Return(p, Keep(p), "Error", Resp(500, "absent", inv[p].reason, Null))
  /\ NoStore
  /\ UNCHANGED <<procs, started, budget>>

\* lines 55-72; every failure of the submission is an exception
ActorSubmit(p) ==
  /\ Running(p, "apify", "submit")
  /\ \E ans \in SubmitAnswers :
       LET n == [submits |-> inv[p].submits + 1] IN
       IF ans = "ok"
         THEN Upd(p, n @@ [pc |-> "poll", status |-> "RUNNING",
                           maxAttempts |-> AfterCondition("RUNNING", MaxAttempts)])
         ELSE ActorThrows(p, n, "Apify run failed")
  /\ NoStore
  /\ UNCHANGED <<procs, started, budget>>

\* lines 77-100: one iteration, the next loop condition, and the status
\* check after the loop.  A failed query is rethrown (line 94).
ActorPoll(p) ==
  /\ Running(p, "apify", "poll")
  /\ \E ans \in ProviderStatuses \cup {"error"} :
       LET left == inv[p].maxAttempts
           n == [sleeps |-> inv[p].sleeps + 1,
                 queries |-> inv[p].queries + 1,
                 failures |-> IF ans = "error" THEN inv[p].failures + 1 ELSE 0,
                 allRunning |-> inv[p].allRunning /\ ans = "RUNNING"]
       IN IF ans = "error" THEN ActorThrows(p, n, "Polling error")
          ELSE IF PollContinues(ans, left)
            THEN Upd(p, n @@ [status |-> ans, maxAttempts |-> AfterCondition(ans, left)])
          ELSE IF ans = "SUCCEEDED"
            THEN Upd(p, n @@ [status |-> ans, pc |-> "fetch"])
          ELSE ActorThrows(p, n @@ [status |-> ans, maxAttempts |-> AfterCondition(ans, left)],
                           "Run failed with status")
  /\ NoStore
  /\ UNCHANGED <<procs, started, budget>>

\* lines 103-114 and the caller's use of the result: lines 156-159 (run 1),
\* line 171 (run 2)
ActorFetch(p) ==
  /\ Running(p, "apify", "fetch")
  /\ \E ok \in BOOLEAN, body \in (IF inv[p].run = 1 THEN ProfileResults ELSE ReelResults) :
       /\ (~ok => body = Null)
       /\ LET n == [fetches |-> inv[p].fetches + 1, results |-> body,
                     fetched |-> IF ok THEN "ok" ELSE "error"] IN
          IF ~ok THEN ActorThrows(p, n, "Failed to fetch results")
          ELSE IF inv[p].run = 1
            THEN IF NoResults(body)
                   THEN ActorThrows(p, n, "No profile/posts data found")
                   ELSE Upd(p, [fetches |-> inv[p].fetches + 1, pc |-> "submit", run |-> 2,
                                profile |-> Obj(body.v[1]),
                                results |-> Null, fetched |-> "no"] @@ Gone)
            ELSE Upd(p, n @@ [pc |-> "upload",
                              recentReels |-> IF body = Null THEN <<>> ELSE body.v] @@ Gone)
  /\ NoStore
  /\ UNCHANGED <<procs, started, budget>>

\* lines 176-252: extraction, picture upload (its failure is caught), response
ApifyUpload(p) ==
  /\ Running(p, "apify", "upload")
  /\ \E uploadSuccess \in BOOLEAN :
       Return(p, Keep(p), "Ok",
              Resp(200, "true", IF uploadSuccess THEN "uploaded" ELSE "upload failed",
                   Obj([profile |-> ExtractProfile(inv[p].profile.v),
                        recentReels |-> ExtractRecentReels(inv[p].recentReels)])))
  /\ NoStore
  /\ UNCHANGED <<procs, started, budget>>

apify_run(p) ==
  \/ ApifyBegin(p) \/ ApifyEntry(p) \/ ActorSubmit(p) \/ ActorPoll(p)
  \/ ActorFetch(p) \/ ApifyCaught(p) \/ ApifyUpload(p)

----------------------------------------------------------------------------
(* apify_run.ts, lines 262-366: the minimal profile POST handler.  Nothing  *)
(* in it is inside a try.                                                   *)

\* line 319
MaxAttemptsLight == 24

\* lines 353-359: no biography is taken over
ExtractMinimal(profile) ==
  [username |-> profile.username,
   profilePicture |-> IF profile.profilePicUrlHD = Undef
                        THEN profile.profilePicUrl ELSE profile.profilePicUrlHD,
   followersCount |-> profile.followersCount,
   restricted |-> IF profile.private = Undef THEN "false" ELSE profile.private]

LightBegin(p) ==
  /\ \E req \in ApifyRequests : Begin(p, "light", req)
  /\ UNCHANGED <<lead, lastw, procs, budget>>

\* lines 265-281
LightEntry(p) ==
  /\ Running(p, "light", "entry")
  /\ LET req == inv[p].req IN
       IF ~req.token
         THEN Return(p, Keep(p), "Rejected", Resp(401, "absent", "invalid token", Null))
       ELSE IF ~req.json
         THEN Return(p, Keep(p), "Rejected", Resp(400, "absent", "Invalid JSON body", Null))
       ELSE IF req.username # "string"
         THEN Return(p, Keep(p), "Rejected", Resp(400, "absent", "Missing or invalid username", Null))
       ELSE Upd(p, [pc |-> "submit", run |-> 1])
  /\ NoStore
  /\ UNCHANGED <<procs, started, budget>>

\* lines 294-320
LightSubmit(p) ==
  /\ Running(p, "light", "submit")
  /\ \E ans \in SubmitAnswers, readable \in BOOLEAN, code \in {402, 500} :
       LET n == [submits |-> inv[p].submits + 1] IN
       CASE ans = "netfail" -> readable /\ code = 500 /\ Throw(p, n, "Fetch failed")
         [] ans = "rejected" ->
              IF readable
                THEN Return(p, n @@ [reason |-> "Apify run failed"], "Error",
                            Resp(code, "absent", "Apify run failed", Null))
                ELSE code = 500 /\ Throw(p, n, "error body")
         [] ans = "badbody" -> readable /\ code = 500 /\ Throw(p, n, "submit body")
         [] ans = "ok" ->
              /\ readable /\ code = 500
              /\ Upd(p, n @@ [pc |-> "poll", status |-> "RUNNING",
                              maxAttempts |-> AfterCondition("RUNNING", MaxAttemptsLight)])
  /\ NoStore
  /\ UNCHANGED <<procs, started, budget>>

\* lines 320-334: one iteration, the next loop condition and the status
\* check after the loop.  A status query that rejects, or whose body has no
\* data.status to read, is an exception nothing catches.
LightPoll(p) ==
  /\ Running(p, "light", "poll")
  /\ \E ans \in ProviderStatuses \cup {"error"} :
       LET left == inv[p].maxAttempts
           n == [sleeps |-> inv[p].sleeps + 1,
                 queries |-> inv[p].queries + 1,
                 failures |-> IF ans = "error" THEN inv[p].failures + 1 ELSE 0,
                 allRunning |-> inv[p].allRunning /\ ans = "RUNNING"]
       IN IF ans = "error"
            THEN Throw(p, n, "Polling error")
          ELSE IF PollContinues(ans, left)
            THEN Upd(p, n @@ [status |-> ans, maxAttempts |-> AfterCondition(ans, left)])
          ELSE IF ans = "SUCCEEDED"
            THEN Upd(p, n @@ [status |-> ans, pc |-> "fetch"])
          ELSE Upd(p, n @@ [status |-> ans, maxAttempts |-> AfterCondition(ans, left),
                            pc |-> "failed", reason |-> "Run failed with status"])
  /\ NoStore
  /\ UNCHANGED <<procs, started, budget>>

\* lines 332-334
LightFailed(p) ==
  /\ Running(p, "light", "failed")
  /\ Return(p, Keep(p), "Error", Resp(500, "absent", "Run failed with status", Null))
  /\ NoStore
  /\ UNCHANGED <<procs, started, budget>>

\* lines 337-365
LightFetch(p) ==
  /\ Running(p, "light", "fetch")
  /\ \E ans \in {"netfail", "notok", "badbody", "ok"}, body \in ProfileResults :
       /\ (ans # "ok" => body = Null)
       /\ LET n == [fetches |-> inv[p].fetches + 1, results |-> body,
                     fetched |-> IF ans = "ok" THEN "ok" ELSE "error"] IN
          CASE ans = "notok" ->
                 Return(p, n @@ [reason |-> "Failed to fetch results"], "Error",
                        Resp(500, "absent", "Failed to fetch results", Null))
            [] ans \in {"netfail", "badbody"} -> Throw(p, n, "Results error")
            [] ans = "ok" ->
                 IF NoResults(body)
                   THEN Return(p, n @@ [reason |-> "No profile found"], "Error",
                               Resp(404, "absent", "No profile found for username", Null))
                   ELSE Return(p, n @@ [profile |-> Obj(body.v[1])], "Ok",
                               Resp(200, "true", "profile", Obj(ExtractMinimal(body.v[1]))))
  /\ NoStore
  /\ UNCHANGED <<procs, started, budget>>

light_run(p) ==
  \/ LightBegin(p) \/ LightEntry(p) \/ LightSubmit(p) \/ LightPoll(p)
  \/ LightFailed(p) \/ LightFetch(p)

----------------------------------------------------------------------------
(* apify_run.ts, lines 420-566: the profile POST handler with the inline    *)
(* poll loop.  It writes no lead.                                           *)

\* lines 542-551
ExtractLight(profile) ==
  [username |-> profile.username,
   followersCount |-> profile.followersCount,
   biography |-> OrEmpty(profile.biography),
   profilePicture |-> IF profile.profilePicUrlHD = Undef
                        THEN profile.profilePicUrl ELSE profile.profilePicUrlHD,
   externalUrl |-> OrNull(profile.externalUrl)]

ProfileBegin(p) ==
  /\ \E req \in ApifyRequests : Begin(p, "profile", req)
  /\ UNCHANGED <<lead, lastw, procs, budget>>

\* lines 421-447
ProfileEntry(p) ==
  /\ Running(p, "profile", "entry")
  /\ LET req == inv[p].req IN
       IF ~req.token
         THEN Return(p, Keep(p), "Rejected", Resp(401, "absent", "invalid token", Null))
       ELSE IF ~req.json
         THEN Return(p, Keep(p), "Rejected", Resp(400, "absent", "Invalid JSON body", Null))
       ELSE IF req.username # "string"
         THEN Return(p, Keep(p), "Rejected", Resp(400, "absent", "Missing or invalid username", Null))
       ELSE Upd(p, [pc |-> "submit", run |-> 1])
  /\ NoStore
  /\ UNCHANGED <<procs, started, budget>>

\* lines 456-481: the submission, outside any try.  A rejected submission is
\* answered with the provider's status if its error body can be read.
ProfileSubmit(p) ==
  /\ Running(p, "profile", "submit")
  /\ \E ans \in SubmitAnswers, readable \in BOOLEAN, code \in {402, 500} :
       LET n == [submits |-> inv[p].submits + 1] IN
       CASE ans = "netfail" -> readable /\ code = 500 /\ Throw(p, n, "Fetch failed")
         [] ans = "rejected" ->
              IF readable
                THEN Return(p, n @@ [reason |-> "Apify run failed"], "Error",
                            Resp(code, "absent", "Apify run failed", Null))
                ELSE code = 500 /\ Throw(p, n, "error body")
         [] ans = "badbody" -> readable /\ code = 500 /\ Throw(p, n, "submit body")
         [] ans = "ok" ->
              /\ readable /\ code = 500
              /\ Upd(p, n @@ [pc |-> "poll", status |-> "RUNNING",
                              maxAttempts |-> AfterCondition("RUNNING", MaxAttempts)])
  /\ NoStore
  /\ UNCHANGED <<procs, started, budget>>

\* lines 482-503: one iteration, the next loop condition and the status
\* check after the loop.  The catch of a failed query returns a 500.
ProfilePoll(p) ==
  /\ Running(p, "profile", "poll")
  /\ \E ans \in ProviderStatuses \cup {"error"} :
       LET left == inv[p].maxAttempts
           n == [sleeps |-> inv[p].sleeps + 1,
                 queries |-> inv[p].queries + 1,
                 failures |-> IF ans = "error" THEN inv[p].failures + 1 ELSE 0,
                 allRunning |-> inv[p].allRunning /\ ans = "RUNNING"]
       IN IF ans = "error"
            THEN Return(p, n @@ [reason |-> "Polling error"], "Error",
                        Resp(500, "absent", "Polling error", Null))
          ELSE IF PollContinues(ans, left)
            THEN Upd(p, n @@ [status |-> ans, maxAttempts |-> AfterCondition(ans, left)])
          ELSE IF ans = "SUCCEEDED"
            THEN Upd(p, n @@ [status |-> ans, pc |-> "fetch"])
          ELSE Upd(p, n @@ [status |-> ans, maxAttempts |-> AfterCondition(ans, left),
                            pc |-> "failed", reason |-> "Run failed with status"])
  /\ NoStore
  /\ UNCHANGED <<procs, started, budget>>

\* lines 501-503
ProfileFailed(p) ==
  /\ Running(p, "profile", "failed")
  /\ Return(p, Keep(p), "Error", Resp(500, "absent", "Run failed with status", Null))
  /\ NoStore
  /\ UNCHANGED <<procs, started, budget>>

\* lines 506-565: results fetch inside a try whose catch answers 500,
\* extraction, picture upload (its failure is caught), response.
\* ans = "netfail": the fetch rejects; "badbody": the body cannot be read.
ProfileFetch(p) ==
  /\ Running(p, "profile", "fetch")
  /\ \E ans \in {"netfail", "notok", "badbody", "ok"}, body \in ProfileResults,
        uploadSuccess \in BOOLEAN :
       /\ (ans # "ok" => body = Null /\ uploadSuccess)
       /\ (NoResults(body) => uploadSuccess)
       /\ LET n == [fetches |-> inv[p].fetches + 1, results |-> body,
                     fetched |-> IF ans = "ok" THEN "ok" ELSE "error"] IN
          CASE ans = "notok" ->
                 Return(p, n @@ [reason |-> "Failed to fetch results"], "Error",
                        Resp(500, "absent", "Failed to fetch results", Null))
            [] ans \in {"netfail", "badbody"} ->
                 Return(p, n @@ [reason |-> "Results error"], "Error",
                        Resp(500, "absent", "Results processing error", Null))
            [] ans = "ok" ->
                 IF NoResults(body)
                   THEN Return(p, n @@ [reason |-> "No profile found"], "Error",
                               Resp(404, "absent", "No profile found for username", Null))
                   ELSE Return(p, n @@ [profile |-> Obj(body.v[1])], "Ok",
                               Resp(200, "true",
                                    IF uploadSuccess THEN "uploaded" ELSE "upload failed",
                                    Obj(ExtractLight(body.v[1]))))
  /\ NoStore
  /\ UNCHANGED <<procs, started, budget>>

profile_run(p) ==
  \/ ProfileBegin(p) \/ ProfileEntry(p) \/ ProfileSubmit(p) \/ ProfilePoll(p)
  \/ ProfileFailed(p) \/ ProfileFetch(p)

----------------------------------------------------------------------------
(* website_run.ts, lines 244-427: the crawl POST handler that answers with  *)
(* the pages and writes no lead.                                            *)

\* items of the crawler's dataset: page.url, page.crawl.depth, page.text
Page(url, depth, text) == [url |-> url, depth |-> depth, text |-> text]
PageHome == Page("home", 0, "t0")
PageHomeAlt == Page("home2", 0, "t0b")
PageAbout == Page("about", 1, "t1")
PageDeep == Page("deep", 2, Undef)
PageNoDepth == Page("nodepth", Absent, "tn")

CrawlResults ==
  { Null, Arr(<<>>), Arr(<<PageAbout>>), Arr(<<PageHome, PageAbout>>),
    Arr(<<PageAbout, PageHome>>), Arr(<<PageAbout, PageDeep>>),
    Arr(<<PageDeep, PageNoDepth>>), Arr(<<PageAbout, PageHome, PageHomeAlt>>) }

\* autoConcise: the request URL carries the query parameter
\* autoConcise=true (line 400)
CrawlRequest(token, json, externalUrl, autoConcise) ==
  Request(token, json, "bad", externalUrl, "bad", "other") @@ [autoConcise |-> autoConcise]

CrawlRequests ==
  { CrawlRequest(FALSE, TRUE, "string", FALSE),
    CrawlRequest(TRUE, FALSE, "bad", FALSE),
    CrawlRequest(TRUE, TRUE, "bad", TRUE),
    CrawlRequest(TRUE, TRUE, "string", FALSE),
    CrawlRequest(TRUE, TRUE, "string", TRUE) }

\* lines 362-374 (and 180-192): depth: page.crawl?.depth || 0, text: page.text || ""
ExtractPage(page) ==
  [url |-> page.url, depth |-> Or0(page.depth), text |-> OrEmpty(page.text)]

ExtractPages(results) == [i \in 1..Len(results) |-> ExtractPage(results[i])]

\* a handler that always takes the first page
PrimaryPage_First(extractedPages) == extractedPages[1]

\* line 377 (and 194): extractedPages.find(p => p.depth === 0) || extractedPages[0]
PrimaryPage(extractedPages) ==
  LET zero == {i \in 1..Len(extractedPages) : extractedPages[i].depth = 0} IN
  IF zero = {} THEN extractedPages[1]
  ELSE extractedPages[CHOOSE i \in zero : \A j \in zero : i <= j]

\* lines 380-386 (and 195-200)
Aggregated(results) ==
  LET extractedPages == ExtractPages(results) IN
  [inputUrl |-> "url", pagesCount |-> Len(extractedPages),
   primary |-> PrimaryPage(extractedPages), allPages |-> extractedPages]

CrawlBegin(p) ==
  /\ \E req \in CrawlRequests : Begin(p, "crawl", req)
  /\ UNCHANGED <<lead, lastw, procs, budget>>

\* lines 247-271
CrawlEntry(p) ==
  /\ Running(p, "crawl", "entry")
  /\ LET req == inv[p].req IN
       IF ~req.token
         THEN Return(p, Keep(p), "Rejected", Resp(401, "absent", "invalid token", Null))
       ELSE IF ~req.json
         THEN Return(p, Keep(p), "Rejected", Resp(400, "absent", "Invalid JSON body", Null))
       ELSE IF req.externalUrl # "string"
         THEN Return(p, Keep(p), "Rejected", Resp(400, "absent", "Missing or invalid externalUrl", Null))
       ELSE Upd(p, [pc |-> "submit", run |-> 1])
  /\ NoStore
  /\ UNCHANGED <<procs, started, budget>>

\* lines 290-315: the submission, outside any try
CrawlSubmit(p) ==
  /\ Running(p, "crawl", "submit")
  /\ \E ans \in SubmitAnswers, readable \in BOOLEAN, code \in {402, 500} :
       LET n == [submits |-> inv[p].submits + 1] IN
       CASE ans = "netfail" -> readable /\ code = 500 /\ Throw(p, n, "Fetch failed")
         [] ans = "rejected" ->
              IF readable
                THEN Return(p, n @@ [reason |-> "Apify run failed"], "Error",
                            Resp(code, "absent", "Apify run failed", Null))
                ELSE code = 500 /\ Throw(p, n, "error body")
         [] ans = "badbody" -> readable /\ code = 500 /\ Throw(p, n, "submit body")
         [] ans = "ok" ->
              /\ readable /\ code = 500
              /\ Upd(p, n @@ [pc |-> "poll", status |-> "RUNNING",
                              maxAttempts |-> AfterCondition("RUNNING", MaxAttempts)])
  /\ NoStore
  /\ UNCHANGED <<procs, started, budget>>

\* lines 315-338: one iteration, the next loop condition and the status
\* check after the loop.  The catch of a failed query returns a 500.
CrawlPoll(p) ==
  /\ Running(p, "crawl", "poll")
  /\ \E ans \in ProviderStatuses \cup {"error"} :
       LET left == inv[p].maxAttempts
           n == [sleeps |-> inv[p].sleeps + 1,
                 queries |-> inv[p].queries + 1,
                 failures |-> IF ans = "error" THEN inv[p].failures + 1 ELSE 0,
                 allRunning |-> inv[p].allRunning /\ ans = "RUNNING"]
       IN IF ans = "error"
            THEN Return(p, n @@ [reason |-> "Polling error"], "Error",
                        Resp(500, "absent", "Polling error", Null))
          ELSE IF PollContinues(ans, left)
            THEN Upd(p, n @@ [status |-> ans, maxAttempts |-> AfterCondition(ans, left)])
          ELSE IF ans = "SUCCEEDED"
            THEN Upd(p, n @@ [status |-> ans, pc |-> "fetch"])
          ELSE Upd(p, n @@ [status |-> ans, maxAttempts |-> AfterCondition(ans, left),
                            pc |-> "failed", reason |-> "Run failed with status"])
  /\ NoStore
  /\ UNCHANGED <<procs, started, budget>>

\* lines 336-338
CrawlFailed(p) ==
  /\ Running(p, "crawl", "failed")
  /\ Return(p, Keep(p), "Error", Resp(500, "absent", "Run failed with status", Null))
  /\ NoStore
  /\ UNCHANGED <<procs, started, budget>>

\* lines 341-396: results fetch inside a try whose catch answers 500,
\* extraction, response.  Every path through the try block (lines 352,
\* 357, 390) and its catch (line 395) returns, so the code after it (lines
\* 398-426: the autoConcise call of the concise_run endpoint and the
\* response that carries scrapedData and conciseData) is never reached and
\* the count of chained calls (field chained) stays 0.
CrawlFetch(p) ==
  /\ Running(p, "crawl", "fetch")
  /\ \E ans \in {"netfail", "notok", "badbody", "ok"}, body \in CrawlResults :
       /\ (ans # "ok" => body = Null)
       /\ LET n == [fetches |-> inv[p].fetches + 1, results |-> body,
                     fetched |-> IF ans = "ok" THEN "ok" ELSE "error"] IN
          CASE ans = "notok" ->
                 Return(p, n @@ [reason |-> "Failed to fetch results"], "Error",
                        Resp(500, "absent", "Failed to fetch results", Null))
            [] ans \in {"netfail", "badbody"} ->
                 Return(p, n @@ [reason |-> "Results error"], "Error",
                        Resp(500, "absent", "Results processing error", Null))
            [] ans = "ok" ->
                 IF NoResults(body)
                   THEN Return(p, n @@ [reason |-> "No pages scraped"], "Error",
                               Resp(404, "absent", "No pages scraped from URL", Null))
                   ELSE Return(p, n, "Ok",
                               Resp(200, "true", "pages", Obj(Aggregated(body.v))))
  /\ NoStore
  /\ UNCHANGED <<procs, started, budget>>

crawl_run(p) ==
  \/ CrawlBegin(p) \/ CrawlEntry(p) \/ CrawlSubmit(p) \/ CrawlPoll(p)
  \/ CrawlFailed(p) \/ CrawlFetch(p)

----------------------------------------------------------------------------
(* The LLM provider.                                                        *)

\* Values of analysis fields: "s", "n", "c" strings; "" the empty string;
\* "[p]", "[q]" non-empty arrays; "[]" the empty array; "null"; Undef.
IsStr(x) == x \in {"s", "n", "c", ""}
IsArr(x) == x \in {"[p]", "[q]", "[]"}
Falsy(x) == x \in {"", "null", Undef}

Analysis(summary, prices, pricesLow, niche, otherContact) ==
  [summary |-> summary, prices |-> prices, pricesLow |-> pricesLow,
   niche |-> niche, otherContact |-> otherContact]

AnalysisFull == Analysis("s", "[p]", "[q]", "n", "c")
AnalysisNoLow == Analysis("s", "[p]", "", "n", "")
AnalysisPartial == Analysis("s", "[p]", Undef, "n", Undef)
AnalysisNoSummary == Analysis(Undef, "[p]", "[q]", "n", "c")

\* what one chat-completion call gives: "error" (the call rejects), "empty"
\* (no content), "badjson" (content that JSON.parse rejects), "json"
LLMAnswers ==
  { [kind |-> k, v |-> AnalysisFull] : k \in {"error", "empty", "badjson"} }
  \cup { [kind |-> "json", v |-> a] :
           a \in {AnalysisFull, AnalysisNoLow, AnalysisPartial, AnalysisNoSummary} }

----------------------------------------------------------------------------
(* concise_run.ts, lines 17-156: the POST handler that summarizes scraped   *)
(* website data handed to it in the request.  It reads and writes no lead.  *)

\* scrapedData: "object" or "bad" (missing, or no object); leadId is
\* optional: "absent", "string", "number", or "object" (any other type)
SummaryRequest(token, json, scrapedData, leadId) ==
  Request(token, json, "bad", "bad", leadId, "other") @@ [scrapedData |-> scrapedData]

SummaryRequests ==
  { SummaryRequest(FALSE, TRUE, "object", "absent"),
    SummaryRequest(TRUE, FALSE, "bad", "absent"),
    SummaryRequest(TRUE, TRUE, "bad", "string"),
    SummaryRequest(TRUE, TRUE, "object", "object"),
    SummaryRequest(TRUE, TRUE, "object", "absent"),
    SummaryRequest(TRUE, TRUE, "object", "number") }

\* what the completion call and the parse of its content give: "error" (the
\* call rejects or answers not ok), "badjson" (content JSON.parse rejects),
\* "badschema" (no industry, or services no array), "ok"
SummaryAnswers == {"error", "badjson", "badschema", "ok"}

SummaryBegin(p) ==
  /\ \E req \in SummaryRequests : Begin(p, "summary", req)
  /\ UNCHANGED <<lead, lastw, procs, budget>>

\* lines 20-51
SummaryEntry(p) ==
  /\ Running(p, "summary", "entry")
  /\ LET req == inv[p].req IN
       IF ~req.token
         THEN Return(p, Keep(p), "Rejected", Resp(401, "absent", "invalid token", Null))
       ELSE IF ~req.json
         THEN Return(p, Keep(p), "Rejected", Resp(400, "absent", "Invalid JSON body", Null))
       ELSE IF req.scrapedData # "object"
         THEN Return(p, Keep(p), "Rejected", Resp(400, "absent", "Missing or invalid scrapedData", Null))
       ELSE IF req.leadId = "object"
         THEN Return(p, Keep(p), "Rejected", Resp(400, "absent", "Invalid leadId (optional)", Null))
       ELSE Upd(p, [pc |-> "llm"])
  /\ NoStore
  /\ UNCHANGED <<procs, started, budget>>

\* lines 99-155: the completion call, parse and structure check, all inside
\* one try whose catch answers 500
SummaryLLM(p) ==
  /\ Running(p, "summary", "llm")
  /\ \E ans \in SummaryAnswers :
       LET n == [llm |-> inv[p].llm + 1] IN
       IF ans = "ok"
         THEN Return(p, n, "Ok", Resp(200, "true", "summary", Null))
         ELSE Return(p, n @@ [reason |-> ans], "Error",
                     Resp(500, "absent", "Summary generation failed", Null))
  /\ NoStore
  /\ UNCHANGED <<procs, started, budget>>

summary_run(p) == SummaryBegin(p) \/ SummaryEntry(p) \/ SummaryLLM(p)

----------------------------------------------------------------------------
(* concise_run.ts, lines 182-309: the summarization handler (oai_run)        *)

OaiRequests ==
  { Request(FALSE, TRUE, "bad", "bad", "string", "this"),
    Request(TRUE, FALSE, "bad", "bad", "bad", "other"),
    Request(TRUE, TRUE, "bad", "bad", "bad", "other"),
    Request(TRUE, TRUE, "bad", "bad", "number", "this"),
    Request(TRUE, TRUE, "bad", "bad", "string", "this"),
    Request(TRUE, TRUE, "bad", "bad", "string", "other") }

\* line 232
OaiNoProfileDefault == Analysis("null", "[]", "", "null", "")
\* line 283
OaiFallback == Analysis("null", "[]", "[]", "null", "")

\* lines 232 and 284: the patches of the two Degraded writes
OaiNoProfilePatch == [ai_analysis_complete |-> "false", openai |-> Obj(OaiNoProfileDefault)]
OaiFallbackPatch == [openai |-> Obj(OaiFallback), ai_analysis_complete |-> "false"]

\* lines 291-294
OaiOkPatch(analysis) == [openai |-> Obj(analysis), ai_analysis_complete |-> "true"]

\* a handler that never finds a stored analysis
HasAnalysis_Never(openai) == FALSE

\* line 224: existingOpenai && Object.keys(existingOpenai).length > 0
\* (every stored object of the model has the five analysis keys)
HasAnalysis(openai) == openai # Null

\* a check that lets every parsed answer through
OaiSchemaOk_Lenient(a) == TRUE

\* lines 273-279
OaiSchemaOk(a) ==
  /\ IsStr(a.summary)
  /\ IsArr(a.prices)
  /\ (a.pricesLow = "" \/ IsArr(a.pricesLow))
  /\ IsStr(a.niche)
  /\ IsStr(a.otherContact)

\* line 280
OaiNormalize(a) == IF a.pricesLow = "" THEN [a EXCEPT !.pricesLow = "[]"] ELSE a

\* the user prompt names no engagement rate
NotInPrompt == [k |-> "absent"]

\* lines 228 and 248: the rate the user prompt names, "er_avg || 0" of the
\* row when the row has a non-empty reels list
OaiPromptEr(row) ==
  IF row.reels # Null /\ row.reels.v # <<>>
    THEN (IF row.er_avg \in {Null, Num(0)} THEN Num(0) ELSE row.er_avg)
    ELSE NotInPrompt

OaiBegin(p) ==
  /\ \E req \in OaiRequests : Begin(p, "oai", req)
  /\ UNCHANGED <<lead, lastw, procs, budget>>

\* lines 185-209
OaiEntry(p) ==
  /\ Running(p, "oai", "entry")
  /\ LET req == inv[p].req IN
       IF ~req.token
         THEN Return(p, Keep(p), "Rejected", Resp(401, "absent", "invalid token", Null))
       ELSE IF ~req.json
         THEN Return(p, Keep(p), "Rejected", Resp(400, "absent", "Invalid JSON body", Null))
       ELSE IF req.leadId # "string"
         THEN Return(p, Keep(p), "Rejected", Resp(400, "absent", "Missing/invalid leadId", Null))
       ELSE Upd(p, [pc |-> "select"])
  /\ NoStore
  /\ UNCHANGED <<procs, started, budget>>

\* lines 212-234: read the row, answer from the stored analysis if there is one
OaiSelect(p) ==
  /\ Running(p, "oai", "select")
  /\ \E dbOk \in BOOLEAN :
       IF ~Applies(inv[p].req, dbOk)
         THEN Return(p, Keep(p), "NotFound", Resp(404, "absent", "Lead fetch failed", Null))
       ELSE IF HasAnalysis(lead.openai)
         THEN Return(p, [snap |-> Obj(lead)], "Cached", Resp(200, "true", "cached", lead.openai))
       ELSE IF lead.raw_data = Null
         THEN Upd(p, [snap |-> Obj(lead), pc |-> "noprofile"])
       ELSE Upd(p, [snap |-> Obj(lead), pc |-> "llm"])
  /\ NoStore
  /\ UNCHANGED <<procs, started, budget>>

\* lines 231-234
OaiNoProfile(p) ==
  /\ Running(p, "oai", "noprofile")
  /\ \E dbOk \in BOOLEAN :
       /\ Update(inv[p].req, OaiNoProfilePatch, dbOk, "Degraded")
       /\ Return(p, [writes |-> inv[p].writes + 1, applied |-> Applies(inv[p].req, dbOk), wrote |-> Obj(OaiNoProfilePatch)], "Degraded",
                 Resp(200, "false", "No profile data", Null))
  /\ UNCHANGED <<procs, started, budget>>

\* lines 253-281: the completion call, parse and schema check
OaiLLM(p) ==
  /\ Running(p, "oai", "llm")
  /\ \E ans \in LLMAnswers :
       LET n == [llm |-> inv[p].llm + 1, answer |-> ans,
                 erPrompt |-> OaiPromptEr(inv[p].snap.v)] IN
       IF ans.kind = "json" /\ OaiSchemaOk(ans.v)
         THEN Upd(p, n @@ [pc |-> "persist", pend |-> Obj(OaiNormalize(ans.v))])
         ELSE Upd(p, n @@ [pc |-> "fallback", reason |-> ans.kind])
  /\ NoStore
  /\ UNCHANGED <<procs, started, budget>>

\* lines 281-286
OaiDegrade(p) ==
  /\ Running(p, "oai", "fallback")
  /\ \E dbOk \in BOOLEAN :
       /\ Update(inv[p].req, OaiFallbackPatch, dbOk, "Degraded")
       /\ Return(p, [writes |-> inv[p].writes + 1, applied |-> Applies(inv[p].req, dbOk), wrote |-> Obj(OaiFallbackPatch)], "Degraded",
                 Resp(200, "false", "AI error", Obj(OaiFallback)))
  /\ UNCHANGED <<procs, started, budget>>

\* lines 289-308
OaiPersist(p) ==
  /\ Running(p, "oai", "persist")
  /\ \E dbOk \in BOOLEAN :
       /\ Update(inv[p].req, OaiOkPatch(inv[p].pend.v), dbOk, "Ok")
       /\ IF dbOk
            THEN Return(p, [writes |-> inv[p].writes + 1, applied |-> Applies(inv[p].req, dbOk), wrote |-> Obj(OaiOkPatch(inv[p].pend.v))], "Ok",
                        Resp(200, "true", "analysis", inv[p].pend))
            ELSE Return(p, [writes |-> inv[p].writes + 1, applied |-> Applies(inv[p].req, dbOk), wrote |-> Obj(OaiOkPatch(inv[p].pend.v))], "Error",
                        Resp(500, "absent", "Cache failed", Null))
  /\ UNCHANGED <<procs, started, budget>>

concise_run(p) ==
  \/ OaiBegin(p) \/ OaiEntry(p) \/ OaiSelect(p) \/ OaiNoProfile(p)
  \/ OaiLLM(p) \/ OaiDegrade(p) \/ OaiPersist(p)

----------------------------------------------------------------------------
(* open_run.ts POST                                                         *)

OpenRequests ==
  { Request(FALSE, TRUE, "bad", "bad", "number", "this"),
    Request(TRUE, FALSE, "bad", "bad", "bad", "other"),
    Request(TRUE, TRUE, "bad", "bad", "bad", "other"),
    Request(TRUE, TRUE, "bad", "bad", "string", "this"),
    Request(TRUE, TRUE, "bad", "bad", "number", "this"),
    Request(TRUE, TRUE, "bad", "bad", "number", "other") }

\* a Degraded write that also clears what the reels stage stored
OpenIncompletePatch_Wipe ==
  [ai_analysis_complete |-> "false", reels |-> Arr(<<>>), has_reels |-> "false"]

\* lines 69 and 148: the patch of both Degraded writes
OpenIncompletePatch == [ai_analysis_complete |-> "false"]

\* a check that lets every parsed answer through
OpenSchemaOk_Lenient(a) == TRUE

\* line 113
OpenSchemaOk(a) == ~Falsy(a.summary) /\ IsArr(a.prices) /\ IsStr(a.niche)

\* lines 123-130: the patch as it is serialized (undefined values are dropped
\* by JSON.stringify)
OpenPatch(a) ==
  LET sent == {f \in DOMAIN a : a[f] # Undef} IN
  [f \in sent \cup {"ai_analysis_complete"} |->
     IF f = "ai_analysis_complete" THEN "true" ELSE a[f]]

\* lines 56-59, 66 and 86: the rate the user prompt names is the column
\* ER_avg of the row
OpenPromptEr(row) == row.ER_avg

OpenBegin(p) ==
  /\ \E req \in OpenRequests : Begin(p, "open", req)
  /\ UNCHANGED <<lead, lastw, procs, budget>>

\* lines 28-52
OpenEntry(p) ==
  /\ Running(p, "open", "entry")
  /\ LET req == inv[p].req IN
       IF ~req.token
         THEN Return(p, Keep(p), "Rejected", Resp(401, "absent", "invalid token", Null))
       ELSE IF ~req.json
         THEN Return(p, Keep(p), "Rejected", Resp(400, "absent", "Invalid JSON body", Null))
       ELSE IF req.leadId # "number"
         THEN Return(p, Keep(p), "Rejected", Resp(400, "absent", "Missing/invalid leadId", Null))
       ELSE Upd(p, [pc |-> "select"])
  /\ NoStore
  /\ UNCHANGED <<procs, started, budget>>

\* lines 55-71: read the row; there is no look at a stored analysis
OpenSelect(p) ==
  /\ Running(p, "open", "select")
  /\ \E dbOk \in BOOLEAN :
       IF ~Applies(inv[p].req, dbOk)
         THEN Return(p, Keep(p), "NotFound", Resp(404, "absent", "Lead fetch failed", Null))
       ELSE IF lead.raw_data = Null \/ lead.reels = Null \/ lead.website_data = Null
         THEN Upd(p, [snap |-> Obj(lead), pc |-> "incomplete"])
       ELSE Upd(p, [snap |-> Obj(lead), pc |-> "llm"])
  /\ NoStore
  /\ UNCHANGED <<procs, started, budget>>

\* lines 67-71
OpenIncomplete(p) ==
  /\ Running(p, "open", "incomplete")
  /\ \E dbOk \in BOOLEAN :
       /\ Update(inv[p].req, OpenIncompletePatch, dbOk, "Degraded")
       /\ Return(p, [writes |-> inv[p].writes + 1, applied |-> Applies(inv[p].req, dbOk), wrote |-> Obj(OpenIncompletePatch)], "Degraded",
                 Resp(200, "false", "Incomplete data", Null))
  /\ UNCHANGED <<procs, started, budget>>

\* lines 90-118
OpenLLM(p) ==
  /\ Running(p, "open", "llm")
  /\ \E ans \in LLMAnswers :
       LET n == [llm |-> inv[p].llm + 1, answer |-> ans,
                 erPrompt |-> OpenPromptEr(inv[p].snap.v)] IN
       IF ans.kind = "json" /\ OpenSchemaOk(ans.v)
         THEN Upd(p, n @@ [pc |-> "persist", pend |-> Obj(ans.v)])
         ELSE Upd(p, n @@ [pc |-> "fallback", reason |-> ans.kind])
  /\ NoStore
  /\ UNCHANGED <<procs, started, budget>>

\* lines 146-150: the catch marks the analysis incomplete and answers 500
OpenDegrade(p) ==
  /\ Running(p, "open", "fallback")
  /\ \E dbOk \in BOOLEAN :
       /\ Update(inv[p].req, OpenIncompletePatch, dbOk, "Degraded")
       /\ Return(p, [writes |-> inv[p].writes + 1, applied |-> Applies(inv[p].req, dbOk), wrote |-> Obj(OpenIncompletePatch)], "Degraded",
                 Resp(500, "absent", "AI processing error", Null))
  /\ UNCHANGED <<procs, started, budget>>

\* lines 121-144
OpenPersist(p) ==
  /\ Running(p, "open", "persist")
  /\ \E dbOk \in BOOLEAN :
       /\ Update(inv[p].req, OpenPatch(inv[p].pend.v), dbOk, "Ok")
       /\ IF dbOk
            THEN Return(p, [writes |-> inv[p].writes + 1, applied |-> Applies(inv[p].req, dbOk), wrote |-> Obj(OpenPatch(inv[p].pend.v))], "Ok",
                        Resp(200, "true", "analysis", inv[p].pend))
            ELSE Return(p, [writes |-> inv[p].writes + 1, applied |-> Applies(inv[p].req, dbOk), wrote |-> Obj(OpenPatch(inv[p].pend.v))], "Error",
                        Resp(500, "absent", "Cache failed", Null))
  /\ UNCHANGED <<procs, started, budget>>

open_run(p) ==
  \/ OpenBegin(p) \/ OpenEntry(p) \/ OpenSelect(p) \/ OpenIncomplete(p)
  \/ OpenLLM(p) \/ OpenDegrade(p) \/ OpenPersist(p)

----------------------------------------------------------------------------
(* qualify_run.ts POST                                                      *)

QualifyRequests ==
  { Request(FALSE, TRUE, "string", "bad", "bad", "other"),
    Request(TRUE, FALSE, "bad", "bad", "bad", "other"),
    Request(TRUE, TRUE, "bad", "bad", "bad", "other"),
    Request(TRUE, TRUE, "string", "bad", "bad", "other") }

QualifyBegin(p) ==
  /\ \E req \in QualifyRequests : Begin(p, "qualify", req)
  /\ UNCHANGED <<lead, lastw, procs, budget>>

\* lines 19-21: the first statement after the environment is read is
\* "if (invalidTokenResponse)".  The module imports validateApiTokenResponse
\* (line 1) but never calls it and never declares invalidTokenResponse, so
\* the condition raises a ReferenceError on every request, whatever its
\* token and body.  Lines 22-141 (body parse, submission, poll loop, results
\* fetch) are never reached.
QualifyEntry(p) ==
  /\ Running(p, "qualify", "entry")
  /\ Throw(p, Keep(p), "invalidTokenResponse is not defined")
  /\ NoStore
  /\ UNCHANGED <<procs, started, budget>>

qualify_run(p) == QualifyBegin(p) \/ QualifyEntry(p)

----------------------------------------------------------------------------
(* The lead row and the specification.                                      *)

\* website_data of a row whose website stage ran Ok (website_run.ts 195-200)
SiteData == [inputUrl |-> "url", pagesCount |-> 1]

\* A row as the dashboard keeps it: raw_data from the response of the
\* profile scrape (or not yet), the website fields unset or holding the
\* result the non-persisting website handler (website_run.ts 244-427)
\* returned to the dashboard.
LeadRows ==
  { [raw_data |-> rd, reels |-> Null, er_avg |-> Null, has_reels |-> "null",
     website_data |-> wd, has_website |-> IF wd = Null THEN "null" ELSE "true",
     openai |-> Null, ai_analysis_complete |-> "null",
     summary |-> "null", prices |-> "null", pricesLow |-> "null",
     niche |-> "null", otherContact |-> "null", ER_avg |-> Null] :
    rd \in {Null, Obj(ProfileFull)}, wd \in {Null, Obj(SiteData)} }

InitRow ==
  /\ lead \in LeadRows
  /\ lastw = [s \in Stages |-> IF s = "website" /\ lead.website_data # Null THEN "Ok" ELSE "none"]
  /\ inv = [p \in Procs |-> Idle]
  /\ started = 0

\* The enrichment chain on one lead: the handlers that read or write the
\* row, invoked one after the other.
Init == InitRow /\ procs = {1} /\ budget = MaxInvocations

Next ==
  \E p \in Procs :
    \/ reels_run(p)
    \/ website_run(p)
    \/ concise_run(p)
    \/ open_run(p)
    \/ Finish(p)

Spec == Init /\ [][Next]_vars

\* One invocation of a scrape handler.
InitOne == InitRow /\ procs = {1} /\ budget = 1

NextOne ==
  \E p \in Procs :
    \/ reels_run(p)
    \/ website_run(p)
    \/ apify_run(p)
    \/ light_run(p)
    \/ profile_run(p)
    \/ crawl_run(p)
    \/ summary_run(p)
    \/ concise_run(p)
    \/ qualify_run(p)
    \/ Finish(p)

SpecOne == InitOne /\ [][NextOne]_vars

\* reels_run and website_run invoked for the same lead at the same time:
\* the two workers take their steps in any order.
InitPair == InitRow /\ procs = {1, 2} /\ budget = 2

NextPair == reels_run(1) \/ website_run(2)

SpecPair == InitPair /\ [][NextPair]_vars

\* Two invocations of the same lead-writing handler for the same lead at
\* the same time: the two workers take their steps in any order.  The
\* provider settles each job within MaxTwinPolls status queries.
\* The row is one no stage has written, or one an earlier reels_run stored
\* its result in.
TwinRows ==
  LeadRows \cup
  { Patched(row, [reels |-> Arr(ExtractReels(<<ReelA, ReelB>>)),
                  er_avg |-> ErAvg(ExtractReels(<<ReelA, ReelB>>)),
                  has_reels |-> "true"]) : row \in LeadRows }

InitTwin ==
  /\ lead \in TwinRows
  /\ lastw = [s \in Stages |->
               IF \/ s = "website" /\ lead.website_data # Null
                  \/ s = "reels" /\ lead.reels # Null
               THEN "Ok" ELSE "none"]
  /\ inv = [p \in Procs |-> Idle]
  /\ started = 0
  /\ procs = {1, 2} /\ budget = 2

\* the other worker is idle or runs handler h as well
SameHandler(p, h) == \A q \in Procs \ {p} : inv[q].handler \in {"none", h}

NextTwin ==
  \E p \in Procs :
    /\ \/ SameHandler(p, "reels") /\ reels_run(p)
       \/ SameHandler(p, "website") /\ website_run(p)
       \/ SameHandler(p, "oai") /\ concise_run(p)
       \/ SameHandler(p, "open") /\ open_run(p)
    /\ inv'[p].queries <= MaxTwinPolls

SpecTwin == InitTwin /\ [][NextTwin]_vars

\* One invocation of a handler that calls the LLM, on a row the earlier
\* stages may have written.
InitSum ==
  /\ lead \in TwinRows
  /\ lastw = [s \in Stages |->
               IF \/ s = "website" /\ lead.website_data # Null
                  \/ s = "reels" /\ lead.reels # Null
               THEN "Ok" ELSE "none"]
  /\ inv = [p \in Procs |-> Idle]
  /\ started = 0
  /\ procs = {1} /\ budget = 1

NextSum ==
  \E p \in Procs :
    \/ summary_run(p)
    \/ concise_run(p)
    \/ open_run(p)
    \/ Finish(p)

SpecSum == InitSum /\ [][NextSum]_vars

\* A scrape stage and a summarization stage invoked for the same lead at the
\* same time, as a caller that hands one lead to both does: worker 1 runs
\* reels_run or website_run, worker 2 concise_run or open_run.
NextIds ==
  \/ /\ reels_run(1) \/ website_run(1)
     /\ inv'[1].queries <= MaxTwinPolls
  \/ concise_run(2)
  \/ open_run(2)

SpecIds == InitTwin /\ [][NextIds]_vars

\* One invocation of any handler, in which every external call (provider,
\* LeadStore, LLM) returns and the runtime goes on with the handler: a step
\* that can be taken is taken.
NextLive ==
  \E p \in Procs :
    \/ reels_run(p)
    \/ website_run(p)
    \/ apify_run(p)
    \/ light_run(p)
    \/ profile_run(p)
    \/ crawl_run(p)
    \/ summary_run(p)
    \/ concise_run(p)
    \/ open_run(p)
    \/ qualify_run(p)
    \/ Finish(p)

SpecLive == InitSum /\ [][NextLive]_vars /\ WF_vars(NextLive)

----------------------------------------------------------------------------
(* Properties.                                                              *)

Ended(p) == inv[p].pc \in {"done", "threw"}

\* the request passed the token check and the handler's input validation
Validated(p) ==
  LET req == inv[p].req IN
  /\ req.token /\ req.json
  /\ CASE inv[p].handler = "reels" -> req.username = "string" /\ req.leadId = "string"
       [] inv[p].handler = "website" -> req.externalUrl = "string" /\ req.leadId = "string"
       [] inv[p].handler = "oai" -> req.leadId = "string"
       [] inv[p].handler = "open" -> req.leadId = "number"
       [] inv[p].handler \in {"apify", "light", "profile", "qualify"} -> req.username = "string"
       [] inv[p].handler = "crawl" -> req.externalUrl = "string"
       [] inv[p].handler = "summary" -> req.scrapedData = "object" /\ req.leadId # "object"
       [] OTHER -> FALSE

\* a fault on the provider side was met: submission rejected or unreachable,
\* unreadable submit body, failed status query, final status other than
\* SUCCEEDED, failed results fetch
ProviderFault(p) ==
  inv[p].reason \in {"Fetch failed", "Apify run failed", "submit body", "Run status",
                     "Results error", "Polling error", "Run failed with status",
                     "Failed to fetch results"}

\* the handled result of the reels stage that could not complete: the neutral
\* fields written with has_reels = false, and a 200 response
ReelsDegraded(p) ==
  /\ inv[p].pc = "done"
  /\ inv[p].resp.status = 200
  /\ inv[p].writes = 1
  /\ inv[p].wrote = Obj(ReelsNeutral)

\* the results fetch answered with JSON null or an empty list
EmptyFetched(p) == inv[p].fetched = "ok" /\ inv[p].results \in {Null, Arr(<<>>)}

\* C1: every validated invocation of reels_run, of the lead-writing
\* website_run and of the summarization handler has issued exactly one
\* LeadStore write when it ends, by a response or by an exception.
C1_ExactlyOneWrite ==
  \A p \in procs :
    (inv[p].handler \in {"reels", "website", "oai"} /\ Validated(p) /\ Ended(p))
      => inv[p].writes = 1

\* C2: a provider-side fault never leaves a stage handler as an exception;
\* the handler ends with a Degraded result (a handled, non-failure answer).
C2_FaultsEndDegraded ==
  \A p \in procs :
    (ProviderFault(p) /\ Ended(p)) =>
      /\ inv[p].pc = "done"
      /\ inv[p].resp.status = 200
      /\ inv[p].handler = "reels" => ReelsDegraded(p)

\* C3: in apify_run, when the reels run fails (submission, poll, final
\* status or results fetch) the response is still success: true with the
\* profile extracted from the posts run and an empty recentReels list.
C3_ReelsFailureAbsorbed ==
  \A p \in procs :
    (inv[p].handler = "apify" /\ inv[p].run = 2 /\ ProviderFault(p)) =>
      /\ inv[p].pc \in {"upload", "done"}
      /\ inv[p].recentReels = <<>>
      /\ inv[p].pc = "done" =>
           /\ inv[p].resp.status = 200
           /\ inv[p].resp.success = "true"
           /\ inv[p].resp.data =
                Obj([profile |-> ExtractProfile(inv[p].profile.v), recentReels |-> <<>>])

C3_Witness ==
  \E p \in procs :
    /\ inv[p].handler = "apify" /\ inv[p].run = 2 /\ inv[p].pc = "done"
    /\ inv[p].reason = "Polling error"
    /\ inv[p].resp.success = "true"
    /\ inv[p].resp.data.v.profile.username = "u"

\* C4 as stated: an empty result of a successful results fetch (profile,
\* reels, website) ends in a Degraded result, never in an exception or a
\* failure response.
C4_EmptyIsDegraded ==
  \A p \in procs :
    (EmptyFetched(p) /\ Ended(p)) => (inv[p].pc = "done" /\ inv[p].resp.status = 200)

\* C4 amended: an empty result of the reels fetch of reels_run ends in a
\* Degraded result (neutral fields written, 200); an empty result of a
\* profile fetch is a failure response: 500 from the combined handler of
\* apify_run, 404 from its profile handlers and from the crawl handler; an
\* empty result of the reels run of apify_run gives success with no
\* recentReels.  No exception leaves the
\* handler.
C4_EmptyResult ==
  \A p \in procs :
    EmptyFetched(p) =>
      /\ inv[p].pc # "threw"
      /\ inv[p].handler = "reels" =>
           (inv[p].pc = "degrade" \/ ReelsDegraded(p))
      /\ (inv[p].handler = "apify" /\ inv[p].run = 1) =>
           \/ inv[p].pc = "caught"
           \/ inv[p].pc = "done" /\ inv[p].resp.status = 500 /\ inv[p].resp.success = "absent"
      /\ (inv[p].handler = "apify" /\ inv[p].run = 2) =>
           /\ inv[p].recentReels = <<>>
           /\ \/ inv[p].pc = "upload"
              \/ inv[p].pc = "done" /\ inv[p].resp.status = 200 /\ inv[p].resp.success = "true"
      /\ inv[p].handler \in {"light", "profile", "crawl"} =>
           (inv[p].pc = "done" /\ inv[p].resp.status = 404 /\ inv[p].resp.success = "absent")

C4_Witness ==
  \E p \in procs :
    /\ inv[p].handler = "reels" /\ inv[p].pc = "done"
    /\ inv[p].fetched = "ok" /\ inv[p].results = Arr(<<>>)
    /\ inv[p].wrote = Obj(ReelsNeutral)

\* the attempt budget of the handler's poll loop
Budget(handler) == IF handler = "light" THEN MaxAttemptsLight ELSE MaxAttempts

\* the poll loop has been left and every status query answered RUNNING
LeftLoopStillRunning(p) ==
  inv[p].pc # "poll" /\ inv[p].queries > 0 /\ inv[p].allRunning

\* C5 as stated: with the job RUNNING throughout, the loop makes exactly
\* MaxAttempts queries, one sleep before each, and yields TIMED_OUT.
C5_TimedOutVerdict ==
  \A p \in procs :
    LeftLoopStillRunning(p) =>
      /\ inv[p].queries = Budget(inv[p].handler)
      /\ inv[p].sleeps = Budget(inv[p].handler)
      /\ inv[p].status = "TIMED_OUT"

\* C5 amended: with the job RUNNING throughout, the loop makes exactly
\* Budget(handler) queries, one sleep before each, and is left with the status
\* RUNNING: no TIMED_OUT verdict exists, the handlers report the run as not
\* succeeded.
C5_BudgetExhausted ==
  \A p \in procs :
    /\ inv[p].sleeps = inv[p].queries
    /\ inv[p].queries <= Budget(inv[p].handler)
    /\ LeftLoopStillRunning(p) =>
         /\ inv[p].queries = Budget(inv[p].handler)
         /\ inv[p].sleeps = Budget(inv[p].handler)
         /\ inv[p].status = "RUNNING"
         /\ inv[p].pc \in {"degrade", "caught", "upload", "failed"}
         /\ inv[p].reason \in {"Run status", "Run failed with status"}

C5_Witness ==
  \E p \in procs :
    /\ inv[p].handler = "reels" /\ inv[p].pc = "degrade"
    /\ inv[p].allRunning /\ inv[p].queries = MaxAttempts /\ inv[p].sleeps = MaxAttempts
    /\ inv[p].status = "RUNNING"

\* C6 as stated: the loop gives up on failed status queries only at the
\* third consecutive failure, and then with ABORTED.
C6_AbortAfterThree ==
  \A p \in procs :
    (inv[p].failures > 0 /\ inv[p].pc # "poll")
      => inv[p].failures = 3 /\ inv[p].status = "ABORTED"

\* C6 amended: the first failed status query ends the poll loop, whatever
\* is left of the budget (reels_run: status FAILED; runApifyActor, the
\* profile handler and the crawl handler: "Polling error"; the minimal
\* profile handler: an uncaught exception); two failures in a row never happen
\* and a failed query never gives ABORTED.
C6_FirstFailureEnds ==
  \A p \in procs :
    /\ inv[p].failures <= 1
    /\ inv[p].failures = 1 =>
         /\ inv[p].pc # "poll"
         /\ inv[p].status # "ABORTED"
         /\ (inv[p].handler = "reels" /\ inv[p].pc = "degrade") => inv[p].status = "FAILED"
         /\ inv[p].handler \in {"apify", "profile", "crawl"} => inv[p].reason = "Polling error"

C6_Witness ==
  \E p \in procs :
    /\ inv[p].handler = "reels" /\ inv[p].pc = "degrade"
    /\ inv[p].failures = 1 /\ inv[p].queries = 2 /\ inv[p].maxAttempts > 0
    /\ inv[p].status = "FAILED"

\* C7 as stated: after one failed status query, with budget left, polling
\* goes on.
C7_FailureIsRetried ==
  \A p \in procs :
    (inv[p].failures = 1 /\ inv[p].maxAttempts > 0 /\ ~Ended(p)) => inv[p].pc = "poll"

\* C7 amended: one failed status query ends polling: no further status
\* query and no results fetch follow.  reels_run finishes Degraded; the
\* posts run of apify_run, its profile handler and the crawl handler answer
\* 500; the minimal profile handler throws; a failure in the reels run of
\* apify_run leaves recentReels empty.
C7_FailureEndsStage ==
  \A p \in procs :
    inv[p].failures >= 1 =>
      /\ inv[p].pc \in {"degrade", "caught", "upload", "done", "threw"}
      /\ inv[p].pc = "threw" <=> inv[p].handler = "light"
      /\ inv[p].fetched = "no"
      /\ (inv[p].handler = "reels" /\ inv[p].pc = "done") => ReelsDegraded(p)
      /\ (inv[p].handler = "apify" /\ inv[p].run = 1 /\ inv[p].pc = "done")
           => inv[p].resp.status = 500
      /\ (inv[p].handler = "apify" /\ inv[p].run = 2) => inv[p].recentReels = <<>>
      /\ (inv[p].handler \in {"profile", "crawl"}) =>
           (inv[p].pc = "done" /\ inv[p].resp.status = 500)

C7_Witness ==
  \E p \in procs :
    /\ inv[p].handler = "profile" /\ inv[p].pc = "done"
    /\ inv[p].failures = 1 /\ inv[p].fetches = 0
    /\ inv[p].resp.status = 500 /\ inv[p].resp.body = "Polling error"

\* the row read by the summarization handler held an analysis: the openai
\* object, or the analysis columns open_run writes
StoredAnalysis(row) == HasAnalysis(row.openai) \/ row.summary # "null"

\* C8: a summarization invocation that reads a lead with a stored analysis
\* calls the LLM provider zero times, writes nothing and returns the stored
\* object.
C8_StoredAnalysisIsReused ==
  \A p \in procs :
    (inv[p].handler \in {"oai", "open"} /\ inv[p].snap # Null /\ StoredAnalysis(inv[p].snap.v))
      => /\ inv[p].llm = 0
         /\ inv[p].writes = 0
         /\ inv[p].pc = "done" => inv[p].resp.data = inv[p].snap.v.openai

FlagOf(stage) ==
  CASE stage = "reels" -> "has_reels"
    [] stage = "website" -> "has_website"
    [] stage = "analysis" -> "ai_analysis_complete"

\* C9: a completion flag is true exactly when the most recent write to the
\* stage's owned fields came from an Ok result.
C9_FlagIffLastWriteOk ==
  \A s \in Stages : (lead[FlagOf(s)] = "true") <=> (lastw[s] = "Ok")

\* the neutral values of the fields a stage owns
NeutralIn(stage, patch) ==
  CASE stage = "reels" ->
         /\ {"reels", "er_avg"} \subseteq DOMAIN patch
         /\ patch.reels = Arr(<<>>) /\ patch.er_avg = Null
    [] stage = "website" ->
         "website_data" \in DOMAIN patch /\ patch.website_data = Null
    [] stage = "analysis" ->
         /\ "openai" \in DOMAIN patch
         /\ patch.openai \in {Obj(OaiFallback), Obj(OaiNoProfileDefault)}

\* C10: a write that sets a completion flag to false sets the stage's owned
\* fields to their neutral values in the same write.
C10_DegradedWritesNeutral ==
  \A p \in procs : \A s \in Stages :
    (inv[p].wrote # Null /\ FlagOf(s) \in DOMAIN inv[p].wrote.v
       /\ inv[p].wrote.v[FlagOf(s)] = "false")
      => NeutralIn(s, inv[p].wrote.v)

\* the fields of the row a stage writes, flag included
StagePart(stage, row) == [f \in OwnedFields(stage) \cup {FlagOf(stage)} |-> row[f]]

\* the stage's part of a row no handler has written yet
Unwritten(stage) == { StagePart(stage, row) : row \in LeadRows }

\* what invocation p leaves in the stage's part of the row, whatever the
\* other invocation does: its own patch if the update reached the row
LeftBy(p, stage) ==
  IF inv[p].applied THEN {StagePart(stage, inv[p].wrote.v)} ELSE Unwritten(stage)

\* C11: with reels_run and website_run run for one lead in any order or
\* interleaving, the final row holds in the reels fields what reels_run
\* wrote and in the website fields what website_run wrote: neither write
\* reaches the other's fields, so the order does not show in the row.
C11_OrderIndependent ==
  (Ended(1) /\ Ended(2) /\ inv[1].handler = "reels" /\ inv[2].handler = "website") =>
    /\ StagePart("reels", lead) \in LeftBy(1, "reels")
    /\ StagePart("website", lead) \in LeftBy(2, "website")
    /\ lead.raw_data \in {row.raw_data : row \in LeadRows}
    /\ lead.openai = Null /\ lead.ai_analysis_complete = "null"

C11_Witness ==
  /\ Ended(1) /\ Ended(2)
  /\ inv[1].handler = "reels" /\ inv[1].applied /\ inv[1].outcome = "Ok"
  /\ inv[2].handler = "website" /\ inv[2].applied
  /\ lead.has_reels = "true" /\ lead.has_website = "false"
  /\ lead.reels # Null /\ lead.website_data = Null

\* the stage could not produce its data: a provider fault, an empty result
\* of the fetch, or a failed or unusable LLM answer
CouldNotComplete(p) ==
  \/ ProviderFault(p)
  \/ EmptyFetched(p)
  \/ inv[p].llm > 0 /\ inv[p].reason # "none"

C13_DegradedReportsSuccess ==
  \A p \in procs :
    (inv[p].pc = "done" /\ Validated(p) /\ inv[p].req.leadRef = "this"
       /\ CouldNotComplete(p))
      => inv[p].resp.success = "true"

\* C13 amended: reels_run and the summarization handler of concise_run
\* answer a well-formed request whose stage could not complete with
\* success: false and status 200, and answer success: true only when the
\* stage's data was produced and stored; a response with an error status
\* carries no success field at all.
C13_DegradedReportsFailure ==
  \A p \in procs :
    (inv[p].pc = "done" /\ Validated(p)) =>
      /\ (inv[p].handler \in {"reels", "oai"} /\ CouldNotComplete(p)) =>
           (inv[p].resp.success = "false" /\ inv[p].resp.status = 200)
      /\ (inv[p].handler \in {"reels", "oai"} /\ inv[p].resp.success = "true") =>
           /\ ~CouldNotComplete(p)
           /\ inv[p].outcome \in {"Ok", "Cached"}
           /\ inv[p].outcome = "Ok" => inv[p].writes = 1
      /\ inv[p].resp.status >= 400 => inv[p].resp.success = "absent"

C13_Witness ==
  \E p \in procs :
    /\ inv[p].handler = "reels" /\ inv[p].pc = "done" /\ Validated(p)
    /\ inv[p].req.leadRef = "this" /\ inv[p].applied
    /\ inv[p].reason = "Run status"
    /\ inv[p].resp.success = "false" /\ inv[p].resp.status = 200

\* the request passed the token check and is malformed: its body is no
\* JSON, or a field the handler requires is missing or of the wrong type.
\* qualify_run is left out: it has no token check and ends at line 21,
\* before it reads the body, whatever the request (see C38).
Malformed(p) ==
  /\ inv[p].handler \notin {"none", "qualify"}
  /\ inv[p].req.token
  /\ ~Validated(p)

\* C14 as stated: every handler answers a malformed request with a failure
\* body and a 4xx status, never with a 2xx status.
C14_MalformedIs4xx ==
  \A p \in procs :
    (Ended(p) /\ Malformed(p)) =>
      /\ inv[p].pc = "done"
      /\ inv[p].resp.status \in 400..499
      /\ inv[p].resp.success # "true"

\* C14 amended: every handler that reads the request body answers an
\* unparsable JSON body with 400, and
\* every handler but the lead-writing website_run answers a missing or
\* wrongly typed field with 400, without any provider call or lead write.
\* The lead-writing website_run answers a missing or wrongly typed
\* externalUrl or leadId with status 200 and success: false, after one
\* update that sets has_website false and website_data null.
C14_MalformedAnswer ==
  \A p \in procs :
    (Ended(p) /\ Malformed(p)) =>
      /\ inv[p].pc = "done"
      /\ inv[p].resp.success # "true"
      /\ inv[p].submits = 0 /\ inv[p].llm = 0
      /\ IF inv[p].handler = "website" /\ inv[p].req.json
           THEN /\ inv[p].resp.status = 200 /\ inv[p].resp.success = "false"
                /\ inv[p].writes = 1 /\ inv[p].wrote = Obj(WebsiteNeutral)
           ELSE /\ inv[p].resp.status = 400 /\ inv[p].resp.success = "absent"
                /\ inv[p].writes = 0

C14_Witness ==
  \E p \in procs :
    /\ inv[p].handler = "website" /\ inv[p].pc = "done" /\ Malformed(p)
    /\ inv[p].req.json /\ inv[p].req.externalUrl = "bad"
    /\ inv[p].resp.status = 200 /\ inv[p].applied
    /\ lead.has_website = "false"

\* C15: when the lead a well-formed request names does not exist, the
\* lead-writing handlers answer 404 and report neither a successful nor a
\* degraded result: no lead write is counted as applied and the body does
\* not carry success: true.
C15_MissingLeadIs404 ==
  \A p \in procs :
    (Ended(p) /\ Validated(p) /\ inv[p].handler \in {"reels", "website", "oai"}
       /\ inv[p].req.leadRef = "other") =>
      /\ inv[p].pc = "done"
      /\ inv[p].resp.status = 404
      /\ inv[p].resp.success # "true"

\* the reels handler has answered a request whose leadId names no row
C15_Reached ==
  \E p \in procs :
    /\ inv[p].handler = "reels" /\ inv[p].pc = "done" /\ Validated(p)
    /\ inv[p].req.leadRef = "other" /\ inv[p].writes = 1 /\ ~inv[p].applied
    /\ inv[p].resp.status = 200 /\ inv[p].resp.success = "true"

\* the reels handler has stored a computed result for the items it fetched
ReelsStored(p) ==
  /\ inv[p].handler = "reels" /\ inv[p].pc = "done"
  /\ inv[p].outcome \in {"Ok", "Error"} /\ inv[p].writes = 1

\* the first two items of the fetched result
CappedSet(p) ==
  LET raw == inv[p].results.v
  IN SubSeq(raw, 1, IF Len(raw) < 2 THEN Len(raw) ELSE 2)

\* summed likes + comments and summed views of a list of raw items, a
\* missing number counting as 0
SumEngagement(items) ==
  Sum([i \in 1..Len(items) |-> Or0(items[i].likesCount) + Or0(items[i].commentsCount)])

SumViews(items) == Sum([i \in 1..Len(items) |-> Or0(items[i].videoPlayCount)])

\* n hundredths is e / v * 100 rounded to two decimals
IsRounded(n, e, v) ==
  LET d == n * v - 10000 * e
  IN 2 * (IF d < 0 THEN 0 - d ELSE d) <= v

\* C16: the aggregate er_avg written by reels_run is
\* sum(likes + comments) / sum(views) * 100 over the first two fetched
\* items, rounded to two decimals, and is null exactly when the summed
\* views are 0.
C16_AggregateRate ==
  \A p \in procs :
    ReelsStored(p) =>
      LET e == SumEngagement(CappedSet(p))
          v == SumViews(CappedSet(p))
          er == inv[p].wrote.v.er_avg
      IN /\ (er = Null) <=> (v = 0)
         /\ er # Null => er.k = "num" /\ IsRounded(er.v, e, v)
         /\ inv[p].applied => lead.er_avg = er

C16_Witness ==
  \E p \in procs :
    /\ ReelsStored(p) /\ inv[p].applied
    /\ inv[p].results = Arr(<<ReelA, ReelB, ReelC>>)
    /\ lead.er_avg = Num(3500)
    /\ Len(lead.reels.v) = 2

\* C17 as stated: for the items (10, 5, 100) and (20, 0, 0) the stored
\* aggregate is 15.00 and the zero-view item's own rate is 0.
C17_ZeroViewDropped ==
  \A p \in procs :
    (ReelsStored(p) /\ inv[p].results = Arr(<<ReelA, ReelB>>)) =>
      /\ inv[p].wrote.v.er_avg = Num(1500)
      /\ inv[p].wrote.v.reels.v[2].ctr = 0

\* C17 amended: a zero-view item adds no views to the aggregate but its
\* likes and comments are still summed: for the items (10, 5, 100) and
\* (20, 0, 0) the stored aggregate is 35.00.  The per-item rate of every
\* stored zero-view item is 0.
C17_ZeroViewCounted ==
  \A p \in procs :
    ReelsStored(p) =>
      /\ \A i \in 1..Len(inv[p].wrote.v.reels.v) :
           inv[p].wrote.v.reels.v[i].videoPlayCount = 0 =>
             /\ inv[p].wrote.v.reels.v[i].ctr = 0
             /\ inv[p].wrote.v.reels.v[i].likesCount = Or0(inv[p].results.v[i].likesCount)
      /\ inv[p].results = Arr(<<ReelA, ReelB>>) => inv[p].wrote.v.er_avg = Num(3500)
      /\ inv[p].results = Arr(<<ReelB>>) => inv[p].wrote.v.er_avg = Null

C17_Witness ==
  \E p \in procs :
    /\ ReelsStored(p) /\ inv[p].applied
    /\ inv[p].results = Arr(<<ReelA, ReelB>>)
    /\ lead.er_avg = Num(3500)
    /\ lead.reels.v[2].ctr = 0 /\ lead.reels.v[2].likesCount = 20

\* a profile handler has answered with a normalized profile
ProfileAnswered(p) ==
  /\ inv[p].handler \in {"apify", "light", "profile"}
  /\ inv[p].pc = "done" /\ inv[p].resp.status = 200

\* the normalized profile record of the response
NormalizedProfile(p) ==
  IF inv[p].handler = "apify" THEN inv[p].resp.data.v.profile ELSE inv[p].resp.data.v

\* C18 as stated: the normalized profile of every handler has a biography,
\* which is the empty text when the provider's record has none.
C18_BiographyNeverAbsent ==
  \A p \in procs :
    ProfileAnswered(p) =>
      /\ "biography" \in DOMAIN NormalizedProfile(p)
      /\ NormalizedProfile(p).biography # Undef

\* C18 amended: the combined handler and the profile handler of
\* apify_run.ts normalize a missing biography to the empty text and copy a
\* present one; the minimal handler (lines 353-359) returns a normalized
\* record with no biography field at all.
C18_BiographyByHandler ==
  \A p \in procs :
    ProfileAnswered(p) =>
      IF inv[p].handler = "light"
        THEN "biography" \notin DOMAIN NormalizedProfile(p)
        ELSE /\ "biography" \in DOMAIN NormalizedProfile(p)
             /\ NormalizedProfile(p).biography =
                  (IF inv[p].profile.v.biography = Undef THEN ""
                   ELSE inv[p].profile.v.biography)

C18_Witness ==
  \E p \in procs :
    /\ ProfileAnswered(p) /\ inv[p].handler = "profile"
    /\ inv[p].profile = Obj(ProfileBare)
    /\ NormalizedProfile(p).biography = ""

\* the crawl handler has answered with the aggregated pages
CrawlAnswered(p) ==
  inv[p].handler = "crawl" /\ inv[p].pc = "done" /\ inv[p].resp.status = 200

C20_FetchOnlyAfterSucceeded ==
  [][\A p \in Procs :
       inv'[p].fetches > inv[p].fetches =>
         /\ inv'[p].fetches = inv[p].fetches + 1
         /\ inv[p].status = "SUCCEEDED"
         /\ inv[p].queries >= 1 /\ inv[p].failures = 0]_vars

C20_Witness ==
  \E p \in procs :
    /\ inv[p].handler = "reels" /\ inv[p].pc = "persist"
    /\ inv[p].fetches = 1 /\ inv[p].fetched = "ok"
    /\ inv[p].status = "SUCCEEDED" /\ inv[p].queries >= 2

\* the job states after which the provider reports nothing new
TerminalStatuses == {"SUCCEEDED", "FAILED", "TIMED-OUT", "ABORTED"}

\* C21: a poll loop goes on while the status it observes is not terminal
\* and budget remains: a step that leaves the loop after fewer status
\* queries than the budget allows has observed, in a query that did not
\* fail, one of SUCCEEDED, FAILED, TIMED-OUT, ABORTED.
C21_StopsOnlyOnTerminal ==
  [][\A p \in Procs :
       (inv[p].pc = "poll" /\ inv'[p].pc # "poll"
          /\ inv'[p].queries < Budget(inv[p].handler)) =>
         /\ inv'[p].failures = 0
         /\ inv'[p].status \in TerminalStatuses]_vars

\* the reels handler has left its loop on the first answer, a job that is
\* still queued
C21_Reached ==
  \E p \in procs :
    /\ inv[p].handler = "reels" /\ inv[p].pc = "degrade"
    /\ inv[p].queries = 1 /\ inv[p].failures = 0 /\ inv[p].status = "READY"
    /\ inv[p].maxAttempts = MaxAttempts - 1

\* a lead-writing scrape handler has used up the attempt budget of its poll
\* loop and every status query answered RUNNING
BudgetExhausted(p) ==
  /\ inv[p].handler \in {"reels", "website"}
  /\ LeftLoopStillRunning(p)
  /\ inv[p].queries = Budget(inv[p].handler)

\* C22: once the poll loop of a lead-writing scrape handler has used up its
\* budget with the job still RUNNING, the handler has fetched no results and
\* its one remaining step is the Degraded write: no status query and no
\* results fetch follow, the patch sets the flag to false and the stage's
\* fields to their neutral values, and the response is a handled 200.  (Of
\* the two handlers only reels_run reaches its poll loop.)
C22_AbandonedJobDegraded ==
  [][\A p \in Procs :
       BudgetExhausted(p) =>
         /\ inv[p].pc = "degrade" /\ inv[p].fetches = 0 /\ inv[p].writes = 0
         /\ inv'[p] # inv[p] =>
              /\ inv'[p].pc = "done"
              /\ inv'[p].fetches = 0 /\ inv'[p].submits = inv[p].submits
              /\ inv'[p].writes = 1
              /\ inv'[p].wrote.v = [has_reels |-> "false", reels |-> Arr(<<>>), er_avg |-> Null]
              /\ inv'[p].resp.status = 200 /\ inv'[p].resp.success = "false"
              /\ inv'[p].applied =>
                   /\ lead'.has_reels = "false"
                   /\ lead'.reels = Arr(<<>>) /\ lead'.er_avg = Null]_vars

C22_Witness ==
  \E p \in procs :
    /\ BudgetExhausted(p) /\ inv[p].handler = "reels"
    /\ inv[p].sleeps = MaxAttempts /\ inv[p].maxAttempts = 0 - 1
    /\ inv[p].reason = "Run status" /\ inv[p].fetches = 0

\* the field group a lead-writing handler stores: its flag and its fields
GroupOf(handler) ==
  CASE handler = "reels" -> {"has_reels", "reels", "er_avg"}
    [] handler = "website" -> {"has_website", "website_data"}
    [] handler = "oai" -> {"openai", "ai_analysis_complete"}
    [] handler = "open" -> {"summary", "prices", "pricesLow", "niche", "otherContact",
                            "ai_analysis_complete"}

\* the row's field group is what invocation p's update alone leaves in it
AsWrittenBy(p) ==
  \E row \in TwinRows :
    \A f \in GroupOf(inv[p].handler) :
      lead[f] = (IF f \in DOMAIN inv[p].wrote.v THEN inv[p].wrote.v[f] ELSE row[f])

\* C23: after two concurrent invocations of the same handler for one lead,
\* the handler's stored field group (flag and fields together) is what one of
\* the two updates leaves in it, never values of both.
C23_OneWriterWins ==
  (Ended(1) /\ Ended(2) /\ inv[1].handler = inv[2].handler
     /\ inv[1].handler \in {"reels", "website", "oai", "open"}
     /\ (inv[1].applied \/ inv[2].applied)) =>
    \E p \in {1, 2} : inv[p].applied /\ AsWrittenBy(p)

\* two invocations of open_run have ended: the row holds the analysis one of
\* them stored and the flag the other one cleared
C23_Reached ==
  /\ Ended(1) /\ Ended(2) /\ inv[1].handler = "open" /\ inv[2].handler = "open"
  /\ inv[1].applied /\ inv[2].applied
  /\ inv[1].outcome = "Ok" /\ inv[2].wrote = Obj(OpenIncompletePatch)
  /\ lead.summary = inv[1].wrote.v.summary
  /\ lead.ai_analysis_complete = "false"

\* the columns a handler may write: its stage's fields and flag
WritableBy(handler) ==
  CASE handler = "reels" -> {"has_reels", "reels", "er_avg"}
    [] handler = "website" -> {"has_website", "website_data"}
    [] handler \in {"oai", "open"} ->
         {"openai", "summary", "prices", "pricesLow", "niche", "otherContact",
          "ai_analysis_complete"}
    [] OTHER -> {}

\* C24: every write of a handler names only columns of its own field group,
\* a column of the row changes only in a step in which a handler wrote it,
\* and the row keeps all its columns (it is never deleted, and the profile
\* it was created with is never rewritten).
C24_WritesOnlyOwnGroup ==
  [][/\ DOMAIN lead' = DOMAIN lead
     /\ lead'.raw_data = lead.raw_data
     /\ \A p \in Procs :
          inv'[p].writes > inv[p].writes =>
            DOMAIN inv'[p].wrote.v \subseteq WritableBy(inv'[p].handler)
     /\ \A f \in DOMAIN lead :
          lead'[f] # lead[f] =>
            \E p \in Procs : /\ inv'[p].writes = inv[p].writes + 1
                             /\ f \in WritableBy(inv'[p].handler)
                             /\ f \in DOMAIN inv'[p].wrote.v]_vars

C24_Witness ==
  \E p \in procs :
    /\ inv[p].handler = "open" /\ inv[p].pc = "done" /\ inv[p].applied
    /\ inv[p].wrote = Obj(OpenIncompletePatch)
    /\ lead.ai_analysis_complete = "false"
    /\ lead.has_reels = "true" /\ lead.reels # Null /\ lead.raw_data # Null

\* a summarization handler of the lead has called the LLM
CalledLLM(p) == inv[p].handler \in {"oai", "open"} /\ inv[p].llm >= 1

\* C25 as stated: the LLM is called only for a lead whose reels stage and
\* website stage have both stored a result.
C25_WaitsForBoth ==
  \A p \in procs :
    CalledLLM(p) => (lastw["reels"] # "none" /\ lastw["website"] # "none")

\* C25 amended: open_run calls the LLM only when the row it read holds a
\* profile, a reels list and website data (all non-null); concise_run calls
\* it whenever the row it read holds a profile and no stored analysis,
\* whether or not the reels or the website stage has stored anything.  Each
\* invocation calls the LLM at most once.
C25_CallsOnRowAsRead ==
  \A p \in procs :
    /\ inv[p].llm <= 1
    /\ CalledLLM(p) =>
         /\ inv[p].snap # Null /\ inv[p].snap.v.raw_data # Null
         /\ inv[p].handler = "open" =>
              (inv[p].snap.v.reels # Null /\ inv[p].snap.v.website_data # Null)
         /\ inv[p].handler = "oai" => inv[p].snap.v.openai = Null
    /\ (inv[p].handler = "oai" /\ inv[p].snap # Null /\ inv[p].pc # "done") =>
         (inv[p].snap.v.raw_data # Null => inv[p].pc \in {"llm", "fallback", "persist"})

C25_Witness ==
  \E p \in procs :
    /\ inv[p].handler = "oai" /\ inv[p].llm = 1 /\ inv[p].pc = "persist"
    /\ inv[p].snap.v.reels = Null /\ inv[p].snap.v.website_data = Null
    /\ lastw["reels"] = "none" /\ lastw["website"] = "none"

\* the combined profile handler has answered with its normalized data
CombinedAnswered(p) ==
  inv[p].handler = "apify" /\ inv[p].pc = "done" /\ inv[p].resp.status = 200

\* C26 as stated: no field of a normalized reel item, profile or page is
\* absent, whatever the raw record lacks.
C26_NoFieldAbsent ==
  \A p \in procs :
    /\ ReelsStored(p) =>
         \A i \in 1..Len(inv[p].wrote.v.reels.v) :
           \A f \in {"id", "ctr", "likesCount", "commentsCount", "videoPlayCount", "timestamp"} :
             inv[p].wrote.v.reels.v[i][f] # Absent
    /\ CombinedAnswered(p) =>
         /\ \A f \in {"username", "biography", "externalUrl", "profilePicUrl", "profilePicUrlHD"} :
              inv[p].resp.data.v.profile[f] # Undef
         /\ inv[p].resp.data.v.profile.followersCount # Absent
         /\ \A i \in 1..Len(inv[p].resp.data.v.recentReels) :
              \A f \in {"id", "likesCount", "commentsCount", "timestamp"} :
                inv[p].resp.data.v.recentReels[i][f] # Absent
    /\ CrawlAnswered(p) =>
         \A i \in 1..Len(inv[p].resp.data.v.allPages) :
           /\ inv[p].resp.data.v.allPages[i].url # Undef
           /\ inv[p].resp.data.v.allPages[i].text # Undef
           /\ inv[p].resp.data.v.allPages[i].depth # Absent

\* C26 amended: the fields read with a fallback are always defined (reel
\* item: likes, comments, views, rate; profile: followsCount, biography,
\* externalUrl; page: depth, text); the fields read without one are copied
\* from the raw record and are absent when the raw record lacks them (reel
\* item: id, timestamp; profile: username, followersCount, profilePicUrl,
\* profilePicUrlHD; page: url).
C26_FallbacksOnly ==
  \A p \in procs :
    /\ ReelsStored(p) =>
         \A i \in 1..Len(inv[p].wrote.v.reels.v) :
           LET item == inv[p].wrote.v.reels.v[i]
               raw == inv[p].results.v[i]
           IN /\ \A f \in {"ctr", "likesCount", "commentsCount", "videoPlayCount"} : item[f] >= 0
              /\ item.id = raw.id /\ item.timestamp = raw.timestamp
    /\ CombinedAnswered(p) =>
         LET prof == inv[p].resp.data.v.profile
             raw == inv[p].profile.v
         IN /\ prof.biography # Undef /\ prof.externalUrl # Undef
            /\ prof.followsCount \in {Null, Num(raw.followsCount)}
            /\ prof.followsCount = Null <=> raw.followsCount \in {Absent, 0}
            /\ prof.username = raw.username /\ prof.followersCount = raw.followersCount
            /\ prof.profilePicUrl = raw.profilePicUrl
            /\ prof.profilePicUrlHD = raw.profilePicUrlHD
            /\ \A i \in 1..Len(inv[p].resp.data.v.recentReels) :
                 LET item == inv[p].resp.data.v.recentReels[i]
                     rawReel == inv[p].recentReels[i]
                 IN /\ item.likesCount >= 0 /\ item.commentsCount >= 0
                    /\ item.id = rawReel.id /\ item.timestamp = rawReel.timestamp
    /\ CrawlAnswered(p) =>
         \A i \in 1..Len(inv[p].resp.data.v.allPages) :
           LET page == inv[p].resp.data.v.allPages[i]
               raw == inv[p].results.v[i]
           IN page.depth >= 0 /\ page.text # Undef /\ page.url = raw.url

C26_Witness ==
  \E p \in procs :
    /\ ReelsStored(p) /\ inv[p].results = Arr(<<ReelC>>)
    /\ inv[p].wrote.v.reels.v[1].timestamp = Absent
    /\ inv[p].wrote.v.reels.v[1].likesCount = 0
    /\ inv[p].wrote.v.reels.v[1].videoPlayCount = 0

\* C27 as stated: the rate of a stored reel item is exactly
\* (likes + comments) / views * 100 when views > 0, and 0 otherwise.
C27_ExactItemRate ==
  \A p \in procs :
    ReelsStored(p) =>
      \A i \in 1..Len(inv[p].wrote.v.reels.v) :
        LET raw == inv[p].results.v[i]
            e == Or0(raw.likesCount) + Or0(raw.commentsCount)
            v == Or0(raw.videoPlayCount)
            ctr == inv[p].wrote.v.reels.v[i].ctr
        IN IF v > 0 THEN ctr * v = 10000 * e ELSE ctr = 0

\* C27 amended: the rate of a stored reel item is
\* (likes + comments) / views * 100 rounded to two decimals when views > 0,
\* and 0 when views is 0 or missing; missing likes or comments count as 0.
C27_RoundedItemRate ==
  \A p \in procs :
    ReelsStored(p) =>
      \A i \in 1..Len(inv[p].wrote.v.reels.v) :
        LET raw == inv[p].results.v[i]
            e == (IF raw.likesCount = Absent THEN 0 ELSE raw.likesCount)
                 + (IF raw.commentsCount = Absent THEN 0 ELSE raw.commentsCount)
            v == raw.videoPlayCount
            ctr == inv[p].wrote.v.reels.v[i].ctr
        IN IF v = Absent \/ v = 0 THEN ctr = 0 ELSE IsRounded(ctr, e, v)

C27_Witness ==
  \E p \in procs :
    /\ ReelsStored(p) /\ inv[p].results = Arr(<<ReelD, ReelA>>)
    /\ inv[p].wrote.v.reels.v[1].ctr = 3333
    /\ inv[p].wrote.v.reels.v[2].ctr = 1500

\* C28: the reels list an Ok reels stage persists has at least 1 and at most
\* 2 items, which are the first items of the provider's result, in the
\* provider's order, however many items the result has.
C28_FirstItemsCapped ==
  \A p \in procs :
    (ReelsStored(p) /\ inv[p].outcome = "Ok") =>
      LET stored == inv[p].wrote.v.reels.v
          raw == inv[p].results.v
      IN /\ Len(stored) >= 1 /\ Len(stored) <= 2
         /\ Len(stored) = (IF Len(raw) <= 2 THEN Len(raw) ELSE 2)
         /\ \A i \in 1..Len(stored) : stored[i].id = raw[i].id
         /\ inv[p].applied => lead.reels = Arr(stored)

C28_Witness ==
  \E p \in procs :
    /\ ReelsStored(p) /\ inv[p].outcome = "Ok" /\ inv[p].applied
    /\ Len(inv[p].results.v) = 3
    /\ Len(lead.reels.v) = 2
    /\ lead.reels.v[1].id = ReelA.id /\ lead.reels.v[2].id = ReelB.id

\* the analysis fields
AnalysisFields == {"summary", "prices", "pricesLow", "niche", "otherContact"}

\* the fields the LLM's JSON answer of invocation p leaves out
Omitted(p) == {f \in AnalysisFields : inv[p].answer.v[f] = Undef}

\* a summarization handler has ended after an LLM answer that parsed as JSON
\* and left some analysis field out
AnsweredWithOmission(p) ==
  /\ inv[p].handler \in {"oai", "open"} /\ inv[p].pc = "done" /\ inv[p].llm = 1
  /\ inv[p].answer.kind = "json" /\ Omitted(p) # {}

\* the analysis an invocation's update stores, field by field (Undef: the
\* update does not name the field)
StoredField(p, f) ==
  LET w == inv[p].wrote.v IN
  IF inv[p].handler = "oai" THEN w.openai.v[f]
  ELSE IF f \in DOMAIN w THEN w[f] ELSE Undef

\* C29 as stated: every field the LLM output omits is stored as its default
\* (empty string, empty list or null) and every field it has is stored as it
\* is.
C29_DefaultsPerField ==
  \A p \in procs :
    AnsweredWithOmission(p) =>
      \A f \in AnalysisFields :
        IF f \in Omitted(p) THEN StoredField(p, f) \in {"", "[]", "null"}
        ELSE StoredField(p, f) = inv[p].answer.v[f]

\* C29 amended: no field defaults on its own.  concise_run stores either
\* the complete answer or, when any field is omitted or of the wrong type,
\* the whole fallback object with the flag false, the fields the answer had
\* included.  open_run with summary omitted stores no analysis field, only
\* the flag false; with pricesLow or otherContact omitted it stores the
\* fields the answer has and does not write the omitted columns.
C29_NoFieldDefaultsAlone ==
  \A p \in procs :
    AnsweredWithOmission(p) =>
      IF inv[p].handler = "oai"
        THEN /\ inv[p].wrote = Obj(OaiFallbackPatch)
             /\ inv[p].resp.status = 200 /\ inv[p].resp.success = "false"
      ELSE IF Omitted(p) \cap {"summary", "prices", "niche"} # {}
        THEN /\ inv[p].wrote = Obj(OpenIncompletePatch)
             /\ inv[p].resp.status = 500
      ELSE /\ DOMAIN inv[p].wrote.v = (AnalysisFields \ Omitted(p)) \cup {"ai_analysis_complete"}
           /\ \A f \in AnalysisFields \ Omitted(p) : inv[p].wrote.v[f] = inv[p].answer.v[f]
           /\ inv[p].wrote.v.ai_analysis_complete = "true"
           /\ inv[p].applied => \A f \in Omitted(p) : lead[f] = inv[p].snap.v[f]

C29_Witness ==
  \E p \in procs :
    /\ AnsweredWithOmission(p) /\ inv[p].handler = "oai" /\ inv[p].applied
    /\ inv[p].answer.v = AnalysisPartial
    /\ lead.openai = Obj(OaiFallback)
    /\ lead.ai_analysis_complete = "false"

\* a handler that calls the LLM has ended after an answer with no content,
\* with content that is no JSON, or with JSON that lacks the summary
BadAnswer(p) ==
  /\ Ended(p) /\ inv[p].llm = 1
  /\ \/ /\ inv[p].handler \in {"oai", "open"}
        /\ \/ inv[p].answer.kind \in {"empty", "badjson"}
           \/ inv[p].answer.kind = "json" /\ inv[p].answer.v.summary = Undef
     \/ inv[p].handler = "summary" /\ inv[p].reason \in {"badjson", "badschema"}

C31_AlwaysSubmits ==
  \A p \in procs :
    (inv[p].handler \in {"reels", "website"} /\ Validated(p) /\ Ended(p))
      => inv[p].submits >= 1

\* a validated reels_run has submitted a job for a lead whose reels stage
\* is already stored as complete
C31_Reached ==
  \E p \in procs :
    /\ inv[p].handler = "reels" /\ inv[p].pc = "poll"
    /\ lead.has_reels = "true" /\ lead.reels # Null


StageHandlers == {"reels", "website", "oai", "open"}

\* the handler has taken its decision on the request
Decided(p) == inv[p].pc \notin {"idle", "entry"}

\* the request was let through to the stage's work
Accepted(p) ==
  /\ Decided(p)
  /\ inv[p].pc # "invalid"
  /\ inv[p].outcome # "Rejected"

\* nothing but the leadId can make the handler turn the request down
OtherwiseValid(p) ==
  LET req == inv[p].req IN
  /\ req.token /\ req.json
  /\ inv[p].handler = "reels" => req.username = "string"
  /\ inv[p].handler = "website" => req.externalUrl = "string"

\* C32: two stage handlers given a leadId of the same type take the same
\* decision on it: both accept it or both turn it down.
C32_SameIdType ==
  \A p, q \in procs :
    ( /\ inv[p].handler \in StageHandlers /\ inv[q].handler \in StageHandlers
      /\ Decided(p) /\ Decided(q)
      /\ OtherwiseValid(p) /\ OtherwiseValid(q)
      /\ inv[p].req.leadId = inv[q].req.leadId )
    => (Accepted(p) <=> Accepted(q))

\* reels_run has accepted a string leadId and open_run has decided on a
\* string leadId as well
C32_Reached ==
  /\ inv[1].handler = "reels" /\ Accepted(1) /\ inv[1].req.leadId = "string"
  /\ inv[2].handler = "open" /\ Decided(2) /\ OtherwiseValid(2)
  /\ inv[2].req.leadId = "string"


\* the summarization handler read a row in which an Ok reels stage has
\* stored a rate, and has called the LLM
PromptedAfterReels(p) ==
  /\ inv[p].handler \in {"oai", "open"}
  /\ CalledLLM(p)
  /\ inv[p].snap.v.has_reels = "true"
  /\ inv[p].snap.v.er_avg # Null

\* C33: the engagement rate in the prompt of a summarization handler is the
\* er_avg the reels stage stored in the row the handler read.
C33_PromptUsesStoredRate ==
  \A p \in procs :
    PromptedAfterReels(p) => inv[p].erPrompt = inv[p].snap.v.er_avg

\* open_run has called the LLM for a lead whose reels stage stored a rate
C33_Reached ==
  \E p \in procs :
    /\ PromptedAfterReels(p)
    /\ inv[p].handler = "open"
    /\ lastw["reels"] = "Ok"


\* C34: a crawl that succeeded for a request with autoConcise=true has
\* called the concise_run endpoint before it answers.
C34_AutoConciseChains ==
  \A p \in procs :
    (CrawlAnswered(p) /\ inv[p].req.autoConcise) => inv[p].chained >= 1

\* a crawl requested with autoConcise=true has answered with its pages
C34_Reached ==
  \E p \in procs :
    /\ CrawlAnswered(p) /\ inv[p].req.autoConcise
    /\ inv[p].fetched = "ok" /\ inv[p].resp.body = "pages"


\* concise_run answered from the stored analysis, without an LLM call
AnsweredFromCache(p) ==
  /\ inv[p].handler = "oai" /\ inv[p].pc = "done"
  /\ inv[p].outcome = "Cached" /\ inv[p].llm = 0

\* C35: the analysis concise_run returns as cached is never one of the
\* default objects a Degraded run stores.
C35_CachedIsOkResult ==
  \A p \in procs :
    AnsweredFromCache(p) =>
      inv[p].resp.data \notin {Obj(OaiFallback), Obj(OaiNoProfileDefault)}

\* concise_run ran after a Degraded run had written the analysis, and has
\* answered
C35_Reached ==
  \E p \in procs :
    /\ inv[p].handler = "oai" /\ inv[p].pc = "done" /\ inv[p].snap # Null
    /\ lastw["analysis"] = "Degraded"
    /\ inv[p].writes = 0


\* concise_run invocation p has read the row and found no stored analysis
ReadEmptyAnalysis(p) ==
  /\ inv[p].handler = "oai"
  /\ inv[p].snap # Null
  /\ inv[p].snap.v.openai = Null

\* C36: of two concurrent concise_run invocations that both found the
\* analysis of the lead empty, at most one calls the LLM, and once both have
\* answered, both responses carry the analysis that is stored.
C36_OneCallOneAnalysis ==
  (ReadEmptyAnalysis(1) /\ ReadEmptyAnalysis(2)) =>
    /\ inv[1].llm + inv[2].llm <= 1
    /\ (inv[1].pc = "done" /\ inv[2].pc = "done" /\ inv[1].applied /\ inv[2].applied) =>
         /\ inv[1].resp.data = lead.openai
         /\ inv[2].resp.data = lead.openai

\* both invocations found the analysis empty and both have answered after
\* a write that reached the row
C36_Reached ==
  /\ ReadEmptyAnalysis(1) /\ ReadEmptyAnalysis(2)
  /\ inv[1].pc = "done" /\ inv[2].pc = "done"
  /\ inv[1].applied /\ inv[2].applied
  /\ inv[1].outcome = "Ok" /\ inv[2].outcome = "Ok"


\* C37 as stated: no step of an invocation whose request is turned down at
\* input validation changes the lead row or issues a LeadStore write.
C37_RejectionKeepsRow ==
  [][\A p \in procs :
       (inv'[p].handler # "none" /\ inv'[p].req.token /\ ~Validated(p)') =>
         /\ lead' = lead
         /\ inv'[p].writes = 0]_vars

\* C37 amended: a request with an unparsable body, or one that any handler
\* but the lead-writing website_run turns down for a missing or wrongly
\* typed field, leaves the row unchanged and issues no write.  The
\* lead-writing website_run issues exactly one write for a request whose
\* externalUrl or leadId is missing or wrongly typed: it changes nothing of
\* the row but has_website (to false) and website_data (to null).
C37_RejectionWritesWebsiteOnly ==
  [][\A p \in procs :
       (inv'[p].handler # "none" /\ inv'[p].req.token /\ ~Validated(p)') =>
         IF inv[p].handler = "website" /\ inv[p].pc = "invalid"
           THEN /\ inv'[p].writes = 1
                /\ \A f \in DOMAIN lead \ {"has_website", "website_data"} :
                     lead'[f] = lead[f]
                /\ lead'.has_website \in {lead.has_website, "false"}
                /\ lead'.website_data \in {lead.website_data, Null}
           ELSE /\ lead' = lead
                /\ inv'[p].writes = inv[p].writes
                /\ inv'[p].pc = "done" => inv'[p].writes = 0]_vars

\* the lead-writing website_run has answered a request whose leadId is a
\* number, after its write of the neutral website fields reached the row
C37_Witness ==
  \E p \in procs :
    /\ inv[p].handler = "website" /\ inv[p].pc = "done" /\ Malformed(p)
    /\ inv[p].req.externalUrl = "string" /\ inv[p].req.leadId = "number"
    /\ inv[p].applied /\ inv[p].writes = 1
    /\ lead.website_data = Null /\ lastw["website"] = "Degraded"


\* C38: a request whose API token is not accepted is answered with the
\* rejection of the token check (401) by every handler, before any scrape
\* job, status query, results fetch, LLM call or LeadStore call.
C38_TokenCheckedFirst ==
  \A p \in procs :
    (inv[p].handler # "none" /\ ~inv[p].req.token) =>
      /\ inv[p].submits = 0 /\ inv[p].queries = 0 /\ inv[p].fetches = 0
      /\ inv[p].llm = 0 /\ inv[p].writes = 0 /\ inv[p].snap = Null
      /\ Ended(p) =>
           /\ inv[p].pc = "done"
           /\ inv[p].outcome = "Rejected"
           /\ inv[p].resp.status = 401

\* qualify_run has ended on a request whose token is not accepted
C38_Reached ==
  \E p \in procs :
    /\ inv[p].handler = "qualify" /\ ~inv[p].req.token /\ Ended(p)
    /\ inv[p].submits = 0 /\ inv[p].writes = 0


\* the handlers whose poll loop can be reached
PollingHandlers == {"reels", "website", "apify", "light", "profile", "crawl"}

\* C39: every invocation of a scrape handler that has started ends with a
\* response of its handler, when every external call returns.
C39_EndsWithResponse ==
  \A p \in Procs :
    (inv[p].pc = "entry" /\ inv[p].handler \in PollingHandlers)
      ~> (inv[p].pc = "done")

\* every invocation that has started ends, with a response or with an
\* exception that leaves the handler
C39_Terminates ==
  \A p \in Procs : (inv[p].pc = "entry") ~> Ended(p)

\* a poll loop issues at most its budget of status queries, and an
\* iteration after which the loop goes on leaves the budget counter one
\* lower than it found it
C39_BudgetDecreases ==
  [][\A p \in Procs :
       /\ inv'[p].queries <= Budget(inv'[p].handler)
       /\ (inv'[p].queries = inv[p].queries + 1 /\ inv'[p].pc = inv[p].pc) =>
            /\ inv'[p].maxAttempts = inv[p].maxAttempts - 1
            /\ inv'[p].maxAttempts >= 0
            /\ inv'[p].maxAttempts + inv'[p].queries = Budget(inv[p].handler) - 1]_vars

\* a poll loop has used its whole budget of status queries
C39_Reached ==
  \E p \in procs :
    /\ inv[p].handler \in {"reels", "crawl", "light"}
    /\ inv[p].queries = Budget(inv[p].handler)
    /\ inv[p].status = "RUNNING"

====
